---- MODULE Spec2Model ----
(***************************************************************************)
(* Documentation discovery of nardocs: PackageScanner.discoverPackage,     *)
(* discoverPackages and clearCache (src/src/discovery/package-scanner.ts). *)
(*                                                                         *)
(* JavaScript strings are sequences of one-character strings, so that      *)
(* includes/startsWith/replace/split/toLowerCase are computed, not assumed.*)
(***************************************************************************)
EXTENDS Integers, Sequences, FiniteSets, TLC

----------------------------------------------------------------------------
(* String constants of the source and the package names, metadata values   *)
(* and URLs the model draws its inputs from.                               *)
\* the patterns and replacements of extractGitHubUrl
gitUrlStrings ==
    [\* "git+"
     git_plus |-> <<"g","i","t","+">>,
     \* ".git"
     dot_git |-> <<".","g","i","t">>,
     \* "git://"
     git_scheme |-> <<"g","i","t",":","/","/">>,
     \* "ssh://git@github.com"
     ssh_git_github |-> <<"s","s","h",":","/","/","g","i","t","@","g","i","t","h","u","b",".","c","o","m">>,
     \* "git@github.com:"
     git_at_github |-> <<"g","i","t","@","g","i","t","h","u","b",".","c","o","m",":">>,
     \* "https://github.com"
     https_github_com |-> <<"h","t","t","p","s",":","/","/","g","i","t","h","u","b",".","c","o","m">>,
     \* "https://github.com/"
     https_github_com_slash |-> <<"h","t","t","p","s",":","/","/","g","i","t","h","u","b",".","c","o","m","/">>]
\* the organization names, special cases and URL parts of orgPatterns
orgStrings ==
    [\* "vercel"
     vercel |-> <<"v","e","r","c","e","l">>,
     \* "aws"
     aws |-> <<"a","w","s">>,
     \* "azure"
     azure |-> <<"a","z","u","r","e">>,
     \* "google"
     google |-> <<"g","o","o","g","l","e">>,
     \* "cloudflare"
     cloudflare |-> <<"c","l","o","u","d","f","l","a","r","e">>,
     \* "og"
     og |-> <<"o","g">>,
     \* "og-image-generation"
     og_image_generation |-> <<"o","g","-","i","m","a","g","e","-","g","e","n","e","r","a","t","i","o","n">>,
     \* "analytics"
     analytics |-> <<"a","n","a","l","y","t","i","c","s">>,
     \* "edge"
     edge |-> <<"e","d","g","e">>,
     \* "functions/edge-functions"
     functions_edge |-> <<"f","u","n","c","t","i","o","n","s","/","e","d","g","e","-","f","u","n","c","t","i","o","n","s">>,
     \* "edge-config"
     edge_config |-> <<"e","d","g","e","-","c","o","n","f","i","g">>,
     \* "storage/edge-config"
     storage_edge_config |-> <<"s","t","o","r","a","g","e","/","e","d","g","e","-","c","o","n","f","i","g">>,
     \* "https://vercel.com/docs/"
     vercel_docs |-> <<"h","t","t","p","s",":","/","/","v","e","r","c","e","l",".","c","o","m","/","d","o","c","s","/">>,
     \* "https://vercel.com/docs/functions/"
     vercel_docs_functions |-> <<"h","t","t","p","s",":","/","/","v","e","r","c","e","l",".","c","o","m","/","d","o","c","s","/","f","u","n","c","t","i","o","n","s","/">>,
     \* "https://docs.aws.amazon.com/AWSJavaScriptSDK/v3/latest/client/"
     aws_client |-> <<"h","t","t","p","s",":","/","/","d","o","c","s",".","a","w","s",".","a","m","a","z","o","n",".","c","o","m","/","A","W","S","J","a","v","a","S","c","r","i","p","t","S","D","K","/","v","3","/","l","a","t","e","s","t","/","c","l","i","e","n","t","/">>,
     \* "https://docs.aws.amazon.com/sdk-for-javascript/v3/developer-guide/"
     aws_guide |-> <<"h","t","t","p","s",":","/","/","d","o","c","s",".","a","w","s",".","a","m","a","z","o","n",".","c","o","m","/","s","d","k","-","f","o","r","-","j","a","v","a","s","c","r","i","p","t","/","v","3","/","d","e","v","e","l","o","p","e","r","-","g","u","i","d","e","/">>,
     \* ".html"
     dot_html |-> <<".","h","t","m","l">>,
     \* "https://docs.microsoft.com/en-us/javascript/api/"
     azure_docs |-> <<"h","t","t","p","s",":","/","/","d","o","c","s",".","m","i","c","r","o","s","o","f","t",".","c","o","m","/","e","n","-","u","s","/","j","a","v","a","s","c","r","i","p","t","/","a","p","i","/">>,
     \* "https://learn.microsoft.com/en-us/javascript/api/"
     azure_learn |-> <<"h","t","t","p","s",":","/","/","l","e","a","r","n",".","m","i","c","r","o","s","o","f","t",".","c","o","m","/","e","n","-","u","s","/","j","a","v","a","s","c","r","i","p","t","/","a","p","i","/">>,
     \* "https://cloud.google.com/nodejs/docs/reference/"
     google_cloud |-> <<"h","t","t","p","s",":","/","/","c","l","o","u","d",".","g","o","o","g","l","e",".","c","o","m","/","n","o","d","e","j","s","/","d","o","c","s","/","r","e","f","e","r","e","n","c","e","/">>,
     \* "/latest"
     slash_latest |-> <<"/","l","a","t","e","s","t">>,
     \* "https://googleapis.dev/nodejs/"
     googleapis |-> <<"h","t","t","p","s",":","/","/","g","o","o","g","l","e","a","p","i","s",".","d","e","v","/","n","o","d","e","j","s","/">>,
     \* "/latest/"
     slash_latest_slash |-> <<"/","l","a","t","e","s","t","/">>,
     \* "https://developers.cloudflare.com/"
     cloudflare_dev |-> <<"h","t","t","p","s",":","/","/","d","e","v","e","l","o","p","e","r","s",".","c","l","o","u","d","f","l","a","r","e",".","c","o","m","/">>,
     \* "https://developers.cloudflare.com/workers/"
     cloudflare_workers |-> <<"h","t","t","p","s",":","/","/","d","e","v","e","l","o","p","e","r","s",".","c","l","o","u","d","f","l","a","r","e",".","c","o","m","/","w","o","r","k","e","r","s","/">>]
\* the literal parts of DOCS_URL_PATTERNS
docsUrlPatterns ==
    [\* "https://docs."
     https_docs_dot |-> <<"h","t","t","p","s",":","/","/","d","o","c","s",".">>,
     \* "/docs"
     slash_docs |-> <<"/","d","o","c","s">>,
     \* "/documentation"
     slash_documentation |-> <<"/","d","o","c","u","m","e","n","t","a","t","i","o","n">>,
     \* "/guide"
     slash_guide |-> <<"/","g","u","i","d","e">>,
     \* ".readthedocs.io"
     readthedocs_io |-> <<".","r","e","a","d","t","h","e","d","o","c","s",".","i","o">>,
     \* "undefined"
     undefined |-> <<"u","n","d","e","f","i","n","e","d">>]
\* package names: the arguments of discoverPackage
npmNames ==
    [\* "lodash"
     lodash |-> <<"l","o","d","a","s","h">>,
     \* "yup"
     yup |-> <<"y","u","p">>,
     \* "@trpc/server"
     trpc_server |-> <<"@","t","r","p","c","/","s","e","r","v","e","r">>,
     \* "@vercel/og"
     vercel_og |-> <<"@","v","e","r","c","e","l","/","o","g">>,
     \* "@vercel/analytics"
     vercel_analytics |-> <<"@","v","e","r","c","e","l","/","a","n","a","l","y","t","i","c","s">>,
     \* "@aws/s3"
     aws_s3 |-> <<"@","a","w","s","/","s","3">>,
     \* "@foo/bar"
     foo_bar |-> <<"@","f","o","o","/","b","a","r">>,
     \* "left-pad"
     left_pad |-> <<"l","e","f","t","-","p","a","d">>]
\* the KNOWN_DOCS_OVERRIDES entries of the model
overrideUrls ==
    [\* "https://lodash.com/docs"
     lodash |-> <<"h","t","t","p","s",":","/","/","l","o","d","a","s","h",".","c","o","m","/","d","o","c","s">>,
     \* "https://github.com/jquense/yup#readme"
     yup |-> <<"h","t","t","p","s",":","/","/","g","i","t","h","u","b",".","c","o","m","/","j","q","u","e","n","s","e","/","y","u","p","#","r","e","a","d","m","e">>,
     \* "https://trpc.io/docs"
     trpc |-> <<"h","t","t","p","s",":","/","/","t","r","p","c",".","i","o","/","d","o","c","s">>]
\* homepage values of the registry documents
homepageUrls ==
    [\* "https://github.com/o/r#readme"
     repo |-> <<"h","t","t","p","s",":","/","/","g","i","t","h","u","b",".","c","o","m","/","o","/","r","#","r","e","a","d","m","e">>,
     \* "https://o.github.io"
     pages |-> <<"h","t","t","p","s",":","/","/","o",".","g","i","t","h","u","b",".","i","o">>,
     \* "https://www.example.com/"
     plain |-> <<"h","t","t","p","s",":","/","/","w","w","w",".","e","x","a","m","p","l","e",".","c","o","m","/">>,
     \* "https://x.dev"
     dev |-> <<"h","t","t","p","s",":","/","/","x",".","d","e","v">>,
     \* "https://GitLab.com/o/r"
     gitlab |-> <<"h","t","t","p","s",":","/","/","G","i","t","L","a","b",".","c","o","m","/","o","/","r">>,
     \* "https://www.npmjs.com/package/r"
     npm |-> <<"h","t","t","p","s",":","/","/","w","w","w",".","n","p","m","j","s",".","c","o","m","/","p","a","c","k","a","g","e","/","r">>,
     \* "https://github.com/o/o.github.io"
     pages_repo |-> <<"h","t","t","p","s",":","/","/","g","i","t","h","u","b",".","c","o","m","/","o","/","o",".","g","i","t","h","u","b",".","i","o">>,
     \* "github.com/o/r"
     noscheme_repo |-> <<"g","i","t","h","u","b",".","c","o","m","/","o","/","r">>,
     \* "https://other.org"
     other |-> <<"h","t","t","p","s",":","/","/","o","t","h","e","r",".","o","r","g">>,
     \* "https://other.org/npmjs.com"
     mention |-> <<"h","t","t","p","s",":","/","/","o","t","h","e","r",".","o","r","g","/","n","p","m","j","s",".","c","o","m">>,
     \* "https://v.example.com"
     version |-> <<"h","t","t","p","s",":","/","/","v",".","e","x","a","m","p","l","e",".","c","o","m">>]
\* repository urls of the registry documents
repositoryUrls ==
    [\* "git+https://github.com/o/r.git"
     git_https |-> <<"g","i","t","+","h","t","t","p","s",":","/","/","g","i","t","h","u","b",".","c","o","m","/","o","/","r",".","g","i","t">>,
     \* "git@github.com:o/r.git"
     scp |-> <<"g","i","t","@","g","i","t","h","u","b",".","c","o","m",":","o","/","r",".","g","i","t">>,
     \* "git+https://gitlab.com/o/r.git"
     gitlab |-> <<"g","i","t","+","h","t","t","p","s",":","/","/","g","i","t","l","a","b",".","c","o","m","/","o","/","r",".","g","i","t">>]
\* hrefs of the links of a fetched homepage
pageHrefs ==
    [\* "https://other.org/docs/intro"
     docs_abs |-> <<"h","t","t","p","s",":","/","/","o","t","h","e","r",".","o","r","g","/","d","o","c","s","/","i","n","t","r","o">>,
     \* "/docs/start"
     docs_rel |-> <<"/","d","o","c","s","/","s","t","a","r","t">>,
     \* "/about"
     about |-> <<"/","a","b","o","u","t">>,
     \* "docs/page"
     relative |-> <<"d","o","c","s","/","p","a","g","e">>,
     \* "/Docs"
     upper |-> <<"/","D","o","c","s">>]
\* the substrings the homepage tier of discoverPackage looks for
homepageStrings ==
    [\* ".github.io"
     github_io |-> <<".","g","i","t","h","u","b",".","i","o">>,
     \* "github.com"
     github_com |-> <<"g","i","t","h","u","b",".","c","o","m">>,
     \* "gitlab.com"
     gitlab_com |-> <<"g","i","t","l","a","b",".","c","o","m">>,
     \* "npmjs.com"
     npmjs_com |-> <<"n","p","m","j","s",".","c","o","m">>,
     \* "docs"
     docs |-> <<"d","o","c","s">>,
     \* "documentation"
     documentation |-> <<"d","o","c","u","m","e","n","t","a","t","i","o","n">>,
     \* "guide"
     guide |-> <<"g","u","i","d","e">>,
     \* ".dev"
     dev |-> <<".","d","e","v">>,
     \* ".io"
     io |-> <<".","i","o">>]
\* string literals of PackageScanner used in several places
scanStrings ==
    [\* "https://"
     https |-> <<"h","t","t","p","s",":","/","/">>,
     \* "http://"
     http |-> <<"h","t","t","p",":","/","/">>,
     \* "www."
     www |-> <<"w","w","w",".">>,
     \* "https://www.npmjs.com/package/"
     npm_package |-> <<"h","t","t","p","s",":","/","/","w","w","w",".","n","p","m","j","s",".","c","o","m","/","p","a","c","k","a","g","e","/">>,
     \* "api-reference"
     api_reference |-> <<"a","p","i","-","r","e","f","e","r","e","n","c","e">>,
     \* "/"
     slash |-> <<"/">>,
     \* "https://registry.npmjs.org/"
     registry |-> <<"h","t","t","p","s",":","/","/","r","e","g","i","s","t","r","y",".","n","p","m","j","s",".","o","r","g","/">>,
     \* "%2F"
     pct2F |-> <<"%","2","F">>,
     \* "http"
     http_prefix |-> <<"h","t","t","p">>,
     \* "unknown"
     unknown |-> <<"u","n","k","n","o","w","n">>]
\* values of the fields of the registry metadata
metadataValues ==
    [\* "1.0.0"
     version |-> <<"1",".","0",".","0">>,
     \* "a package"
     description |-> <<"a"," ","p","a","c","k","a","g","e">>,
     \* "kw"
     keywords |-> <<"k","w">>]

----------------------------------------------------------------------------
(* JavaScript values that are not strings.                                 *)

\* undefined
Undefined == <<"<undefined>">>
\* null
Null == <<"<null>">>
\* a value of another type (number, array, object) where a string is expected
NonString == <<"<non-string>">>

IsString(v) == v \notin {Undefined, Null, NonString}

\* JavaScript truthiness of a string-or-other value
Truthy(v) == v \notin {Undefined, Null, <<>>}

\* a || b
OrElse(a, b) == IF Truthy(a) THEN a ELSE b

----------------------------------------------------------------------------
(* String.prototype operations.                                            *)

\* s.startsWith(p)
StartsWith(s, p) == Len(s) >= Len(p) /\ SubSeq(s, 1, Len(p)) = p

\* s.endsWith(p)
EndsWith(s, p) == Len(s) >= Len(p) /\ SubSeq(s, Len(s) - Len(p) + 1, Len(s)) = p

\* s.indexOf(p), 1-based, 0 when absent
IndexOf(s, p) ==
    LET hits == {i \in 1..(Len(s) - Len(p) + 1) : SubSeq(s, i, i + Len(p) - 1) = p}
    IN IF hits = {} THEN 0 ELSE CHOOSE i \in hits : \A j \in hits : i <= j

\* s.includes(p)
Includes(s, p) == IndexOf(s, p) # 0

\* s.lastIndexOf(p), 1-based, 0 when absent
LastIndexOf(s, p) ==
    LET hits == {i \in 1..(Len(s) - Len(p) + 1) : SubSeq(s, i, i + Len(p) - 1) = p}
    IN IF hits = {} THEN 0 ELSE CHOOSE i \in hits : \A j \in hits : i >= j

\* s.substring(n) with a 0-based start n
Substring(s, n) == SubSeq(s, n + 1, Len(s))

\* s.replace(p, r) with a string pattern: the first occurrence only
ReplaceFirst(s, p, r) ==
    LET i == IndexOf(s, p)
    IN IF i = 0 THEN s
       ELSE SubSeq(s, 1, i - 1) \o r \o SubSeq(s, i + Len(p), Len(s))

\* s.replace(/^p/, r)
ReplacePrefix(s, p, r) == IF StartsWith(s, p) THEN r \o Substring(s, Len(p)) ELSE s

\* s.replace(/p$/, r)
ReplaceSuffix(s, p, r) == IF EndsWith(s, p) THEN SubSeq(s, 1, Len(s) - Len(p)) \o r ELSE s

UpperToLower ==
    [c \in {"A","B","C","D","E","F","G","H","I","J","K","L","M",
            "N","O","P","Q","R","S","T","U","V","W","X","Y","Z"} |->
        CASE c = "A" -> "a" [] c = "B" -> "b" [] c = "C" -> "c" [] c = "D" -> "d"
          [] c = "E" -> "e" [] c = "F" -> "f" [] c = "G" -> "g" [] c = "H" -> "h"
          [] c = "I" -> "i" [] c = "J" -> "j" [] c = "K" -> "k" [] c = "L" -> "l"
          [] c = "M" -> "m" [] c = "N" -> "n" [] c = "O" -> "o" [] c = "P" -> "p"
          [] c = "Q" -> "q" [] c = "R" -> "r" [] c = "S" -> "s" [] c = "T" -> "t"
          [] c = "U" -> "u" [] c = "V" -> "v" [] c = "W" -> "w" [] c = "X" -> "x"
          [] c = "Y" -> "y" [] c = "Z" -> "z"]

\* s.toLowerCase()
ToLowerCase(s) ==
    [i \in 1..Len(s) |-> IF s[i] \in DOMAIN UpperToLower THEN UpperToLower[s[i]] ELSE s[i]]

\* the last two elements of s.split('/'): parts[length - 2] and
\* parts[length - 1]; a missing element is undefined and prints as
\* "undefined" in a template literal
SplitLastTwo(s) ==
    LET l1   == LastIndexOf(s, <<"/">>)
        last == Substring(s, l1)
        rest == SubSeq(s, 1, l1 - 1)
        l2   == LastIndexOf(rest, <<"/">>)
    IN IF l1 = 0 THEN <<docsUrlPatterns.undefined, s>>
       ELSE <<Substring(rest, l2), last>>

----------------------------------------------------------------------------
(* new URL(s).hostname, for the http(s) URLs of the model: the characters  *)
(* after the scheme up to the first '/', '?' or '#', in lower case.  A     *)
(* string without a scheme makes the constructor throw.                    *)

UrlScheme(s) ==
    LET l == ToLowerCase(s)
    IN IF StartsWith(l, scanStrings.https) THEN scanStrings.https
       ELSE IF StartsWith(l, scanStrings.http) THEN scanStrings.http
       ELSE <<>>

UrlParses(s) ==
    /\ UrlScheme(s) # <<>>
    /\ Len(s) > Len(UrlScheme(s))
    /\ s[Len(UrlScheme(s)) + 1] \notin {"/", "?", "#"}

UrlHostname(s) ==
    LET rest == ToLowerCase(Substring(s, Len(UrlScheme(s))))
        ends == {i \in 1..Len(rest) : rest[i] \in {"/", "?", "#"}}
        stop == IF ends = {} THEN Len(rest) + 1
                ELSE CHOOSE i \in ends : \A j \in ends : i <= j
    IN SubSeq(rest, 1, stop - 1)

----------------------------------------------------------------------------
(* Results and registry metadata.                                          *)

\* KNOWN_DOCS_OVERRIDES, restricted to the package names of the model
KNOWN_DOCS_OVERRIDES ==
    (npmNames.lodash :> overrideUrls.lodash) @@ (npmNames.yup :> overrideUrls.yup) @@ (npmNames.trpc_server :> overrideUrls.trpc)

\* KNOWN_DOCS_OVERRIDES[packageName]
KnownOverride(packageName) ==
    IF packageName \in DOMAIN KNOWN_DOCS_OVERRIDES
    THEN KNOWN_DOCS_OVERRIDES[packageName]
    ELSE Undefined

\* the repository field: absent, a string, or an object with a url field
NoRepository == [type |-> "undefined", url |-> Undefined]
RepositoryString(u) == [type |-> "string", url |-> u]
RepositoryObject(u) == [type |-> "object", url |-> u]

\* truthiness of a repository value: an object, or a non-empty string
RepositoryTruthy(repository) ==
    \/ repository.type = "object"
    \/ repository.type = "string" /\ Truthy(repository.url)

\* versions[...] is undefined: every field read through ?. is undefined
NoVersionEntry ==
    [description |-> Undefined, homepage |-> Undefined,
     repository |-> NoRepository, keywords |-> Undefined]

\* the body of a registry response that could not be read
NoData ==
    [latest |-> Undefined, versions |-> <<>>, description |-> Undefined,
     homepage |-> Undefined, repository |-> NoRepository, keywords |-> Undefined]

\* the metadata record that stands for getPackageMetadata returning null
NullMetadata ==
    [isNull |-> TRUE, name |-> Undefined, version |-> Undefined,
     description |-> Undefined, homepage |-> Undefined,
     repository |-> NoRepository, keywords |-> Undefined]

\* getPackageMetadata: null on a network error, a non-2xx status or a body
\* that is not JSON; otherwise the fields of versions[latest], each falling
\* back to the top-level field
GetPackageMetadata(packageName, response) ==
    IF response.kind # "ok" THEN NullMetadata
    ELSE LET data    == response.data
             latest  == data.latest
             key     == OrElse(latest, <<>>)
             version == IF key \in DOMAIN data.versions
                        THEN data.versions[key] ELSE NoVersionEntry
         IN [isNull      |-> FALSE,
             name        |-> packageName,
             version     |-> OrElse(latest, scanStrings.unknown),
             description |-> OrElse(version.description, data.description),
             homepage    |-> OrElse(version.homepage, data.homepage),
             repository  |-> IF RepositoryTruthy(version.repository)
                             THEN version.repository ELSE data.repository,
             keywords    |-> OrElse(version.keywords, data.keywords)]

\* extractGitHubUrl reaches url.replace with a url that is not a string
ExtractGitHubUrlThrows(repository) ==
    /\ repository.type = "object"
    /\ Truthy(repository.url)
    /\ ~IsString(repository.url)

\* extractGitHubUrl
ExtractGitHubUrl(repository) ==
    IF ~RepositoryTruthy(repository) THEN Null
    ELSE IF ~Truthy(repository.url) THEN Null
    ELSE LET u1 == ReplacePrefix(repository.url, gitUrlStrings.git_plus, <<>>)
             u2 == ReplaceSuffix(u1, gitUrlStrings.dot_git, <<>>)
             u3 == ReplacePrefix(u2, gitUrlStrings.git_scheme, scanStrings.https)
             u4 == ReplacePrefix(u3, gitUrlStrings.ssh_git_github, gitUrlStrings.https_github_com)
             u5 == ReplacePrefix(u4, gitUrlStrings.git_at_github, gitUrlStrings.https_github_com_slash)
         IN IF Includes(u5, homepageStrings.github_com) THEN u5 ELSE Null

\* the result object discoverPackage constructs, before the override lookup
NewResult(packageName) ==
    [name        |-> packageName,
     version     |-> scanStrings.unknown,
     description |-> Undefined,
     docsUrl     |-> Null,
     githubUrl   |-> Null,
     npmUrl      |-> scanStrings.npm_package \o packageName,
     confidence  |-> "low",
     keywords    |-> Undefined]

\* the override taken without raising the confidence
ApplyOverride_KeepsConfidence(result) ==
    IF Truthy(KnownOverride(result.name))
    THEN [result EXCEPT !.docsUrl = KnownOverride(result.name)]
    ELSE result

\* if (KNOWN_DOCS_OVERRIDES[packageName]) { docsUrl = ...; confidence = 'high' }
ApplyOverride(result) ==
    IF Truthy(KnownOverride(result.name))
    THEN [result EXCEPT !.docsUrl = KnownOverride(result.name), !.confidence = "high"]
    ELSE result

\* the result left as it was before the metadata came
PopulateFromMetadata_None(result, metadata) == result

\* version, description, keywords and githubUrl copied from the metadata
PopulateFromMetadata(result, metadata) ==
    [result EXCEPT !.version     = metadata.version,
                   !.description = metadata.description,
                   !.keywords    = metadata.keywords,
                   !.githubUrl   = ExtractGitHubUrl(metadata.repository)]

----------------------------------------------------------------------------
(* Priority 1: the homepage.                                               *)

\* isGitHubPages of the homepage tier
IsGitHubPages(homepage) == Includes(homepage, homepageStrings.github_io)

\* isRepositoryLink of the homepage tier, on the lower-cased homepage
IsRepositoryLink(homepage) ==
    \/ Includes(homepage, homepageStrings.github_com) /\ ~IsGitHubPages(homepage)
    \/ Includes(homepage, homepageStrings.gitlab_com)
    \/ Includes(homepage, homepageStrings.npmjs_com)

\* hasDocKeywords without the .dev and .io tests
HasDocKeywords_WordsOnly(homepage) ==
    \/ Includes(homepage, homepageStrings.docs)
    \/ Includes(homepage, homepageStrings.documentation)
    \/ Includes(homepage, homepageStrings.guide)

\* hasDocKeywords, on the lower-cased homepage
HasDocKeywords(homepage) ==
    \/ Includes(homepage, homepageStrings.docs)
    \/ Includes(homepage, homepageStrings.documentation)
    \/ Includes(homepage, homepageStrings.guide)
    \/ Includes(homepage, homepageStrings.dev)
    \/ Includes(homepage, homepageStrings.io)
    \/ IsGitHubPages(homepage)

\* metadata.homepage.toLowerCase() is called on a value that is not a string
HomepageTierThrows(metadata) ==
    Truthy(metadata.homepage) /\ ~IsString(metadata.homepage)

\* Priority 1
HomepageTier(result, metadata) ==
    IF ~Truthy(metadata.homepage) THEN result
    ELSE LET homepage == ToLowerCase(metadata.homepage)
         IN IF IsRepositoryLink(homepage) THEN result
            ELSE [result EXCEPT !.docsUrl    = metadata.homepage,
                                !.confidence = IF HasDocKeywords(homepage)
                                               THEN "high" ELSE "medium"]

\* isRepositoryLink of the content-analysis tier, on the lower-cased homepage
IsRepositoryLinkForAnalysis(homepage) ==
    \/ Includes(homepage, homepageStrings.github_com)
    \/ Includes(homepage, homepageStrings.gitlab_com)
    \/ Includes(homepage, homepageStrings.npmjs_com)

----------------------------------------------------------------------------
(* Priority 2: organization patterns.                                      *)

\* packageName.match(/^@([^/]+)\//) matches
ScopeMatches(packageName) ==
    /\ StartsWith(packageName, <<"@">>)
    /\ IndexOf(packageName, scanStrings.slash) >= 3

\* scopeMatch[1]
ScopeOf(packageName) == SubSeq(packageName, 2, IndexOf(packageName, scanStrings.slash) - 1)

\* packageName.substring(org.length + 2)
UnscopedName(packageName) == Substring(packageName, Len(ScopeOf(packageName)) + 2)

\* specialCases[pkg] || pkg of the vercel pattern
VercelDocPath(pkg) ==
    CASE pkg = orgStrings.og          -> orgStrings.og_image_generation
      [] pkg = orgStrings.analytics   -> orgStrings.analytics
      [] pkg = orgStrings.edge        -> orgStrings.functions_edge
      [] pkg = orgStrings.edge_config -> orgStrings.storage_edge_config
      [] OTHER               -> pkg

\* orgPatterns[org](pkg); the empty list when the organization is unknown
OrgPatterns(org, pkg) ==
    CASE org = orgStrings.vercel ->
           << orgStrings.vercel_docs \o VercelDocPath(pkg),
              orgStrings.vercel_docs_functions \o VercelDocPath(pkg),
              orgStrings.vercel_docs \o pkg >>
      [] org = orgStrings.aws ->
           << orgStrings.aws_client \o pkg \o scanStrings.slash,
              orgStrings.aws_guide \o pkg \o orgStrings.dot_html >>
      [] org = orgStrings.azure ->
           << orgStrings.azure_docs \o pkg \o scanStrings.slash,
              orgStrings.azure_learn \o pkg \o scanStrings.slash >>
      [] org = orgStrings.google ->
           << orgStrings.google_cloud \o pkg \o orgStrings.slash_latest,
              orgStrings.googleapis \o pkg \o orgStrings.slash_latest_slash >>
      [] org = orgStrings.cloudflare ->
           << orgStrings.cloudflare_dev \o pkg \o scanStrings.slash,
              orgStrings.cloudflare_workers \o pkg \o scanStrings.slash >>
      [] OTHER -> << >>

\* urlsToTry of tryOrganizationDocs, each accepted with confidence 'high';
\* empty when the function returns null before any probe
OrgCandidates(packageName) ==
    IF ~ScopeMatches(packageName) THEN << >>
    ELSE LET urls == OrgPatterns(ScopeOf(packageName), UnscopedName(packageName))
         IN [i \in 1..Len(urls) |-> [url |-> urls[i], confidence |-> "high"]]

----------------------------------------------------------------------------
(* Priority 3: common documentation URL patterns.                          *)

\* DOCS_URL_PATTERNS.githubPages
GithubPagesUrl(repo) ==
    LET parts == SplitLastTwo(repo)
    IN scanStrings.https \o parts[1] \o homepageStrings.github_io \o scanStrings.slash \o parts[2]

\* the candidates derived from the homepage; none when new URL() throws
HomepageCandidates(homepage) ==
    IF ~Truthy(homepage) \/ ~UrlParses(homepage) THEN << >>
    ELSE LET domain == ReplacePrefix(UrlHostname(homepage), scanStrings.www, <<>>)
             base   == ReplaceSuffix(homepage, scanStrings.slash, <<>>)
         IN << [url |-> docsUrlPatterns.https_docs_dot \o domain,        confidence |-> "high"],
               [url |-> base \o docsUrlPatterns.slash_docs,              confidence |-> "high"],
               [url |-> base \o docsUrlPatterns.slash_documentation,     confidence |-> "medium"],
               [url |-> base \o docsUrlPatterns.slash_guide,             confidence |-> "medium"] >>

\* packageName.replace('@', '').replace('/', '-')
CleanName(packageName) ==
    ReplaceFirst(ReplaceFirst(packageName, <<"@">>, <<>>), scanStrings.slash, <<"-">>)

\* urlsToTry of tryCommonDocPatterns
CommonCandidates(packageName, homepage, githubUrl) ==
    HomepageCandidates(homepage)
    \o (IF Truthy(githubUrl)
        THEN << [url |-> GithubPagesUrl(githubUrl), confidence |-> "medium"] >>
        ELSE << >>)
    \o << [url |-> scanStrings.https \o CleanName(packageName) \o docsUrlPatterns.readthedocs_io,
           confidence |-> "medium"] >>

----------------------------------------------------------------------------
(* Priority 4: homepage content analysis.  The fetched page is the list of *)
(* the href values of its anchors, in document order.                      *)

\* the three docPatterns, case-insensitive, as tests on one href
MatchesDocPattern(k, href) ==
    LET l == ToLowerCase(href)
    IN CASE k = 1 -> \/ Includes(l, homepageStrings.docs) \/ Includes(l, homepageStrings.documentation)
                     \/ Includes(l, homepageStrings.guide) \/ Includes(l, scanStrings.api_reference)
         [] k = 2 -> \/ StartsWith(l, docsUrlPatterns.https_docs_dot)
                     \/ StartsWith(l, scanStrings.http \o homepageStrings.docs \o <<".">>) /\ Len(l) > 12
         [] k = 3 -> Includes(l, docsUrlPatterns.slash_docs)

\* the hrefs in the order the two nested loops visit them
PatternMatches(hrefs) ==
    SelectSeq(hrefs, LAMBDA h : MatchesDocPattern(1, h))
    \o SelectSeq(hrefs, LAMBDA h : MatchesDocPattern(2, h))
    \o SelectSeq(hrefs, LAMBDA h : MatchesDocPattern(3, h))

\* the loop body's verdict on one match: "skip" (continue), "throw" (new
\* URL(homepage) throws, caught by the outer try) or the URL it returns
AnalyzeMatch(homepage, href) ==
    LET abs == IF StartsWith(href, scanStrings.slash)
               THEN (IF UrlParses(homepage)
                     THEN UrlScheme(homepage) \o UrlHostname(homepage) \o href
                     ELSE <<"<throw>">>)
               ELSE IF StartsWith(href, scanStrings.http_prefix) THEN href
               ELSE <<"<skip>">>
    IN IF abs \in {<<"<throw>">>, <<"<skip>">>} THEN abs
       ELSE IF \/ Includes(abs, homepageStrings.docs) \/ Includes(abs, homepageStrings.documentation)
               \/ Includes(abs, homepageStrings.guide)
            THEN abs ELSE <<"<skip>">>

\* analyzeHomepageForDocs on a response: null when the fetch fails, the
\* status is not 2xx or no match qualifies
AnalyzeHomepageForDocs(homepage, response) ==
    IF response.kind # "ok" THEN Null
    ELSE LET verdicts == [i \in 1..Len(PatternMatches(response.hrefs)) |->
                             AnalyzeMatch(homepage, PatternMatches(response.hrefs)[i])]
             decided  == SelectSeq(verdicts, LAMBDA v : v # <<"<skip>">>)
         IN IF decided = << >> \/ Head(decided) = <<"<throw>">> THEN Null
            ELSE Head(decided)
----------------------------------------------------------------------------
(* DocsCrawler: the string literals of the source and the input strings.   *)

\* DOC_PATH_PATTERNS: each pattern is a prefix, matched ignoring case;
\* /^\/docs?\//i stands for the two prefixes "/doc/" and "/docs/"
DOC_PATH_PATTERNS ==
    <<\* "/doc/"
     <<"/","d","o","c","/">>,
     \* "/docs/"
     <<"/","d","o","c","s","/">>,
     \* "/guide/"
     <<"/","g","u","i","d","e","/">>,
     \* "/api/"
     <<"/","a","p","i","/">>,
     \* "/reference/"
     <<"/","r","e","f","e","r","e","n","c","e","/">>,
     \* "/learn/"
     <<"/","l","e","a","r","n","/">>,
     \* "/tutorial"
     <<"/","t","u","t","o","r","i","a","l">>,
     \* "/getting-started"
     <<"/","g","e","t","t","i","n","g","-","s","t","a","r","t","e","d">>,
     \* "/introduction"
     <<"/","i","n","t","r","o","d","u","c","t","i","o","n">>,
     \* "/overview"
     <<"/","o","v","e","r","v","i","e","w">>>>

\* the substrings of a URL that looksLikeDocumentation takes for documentation
docUrlMarks ==
    {\* "/docs"
     <<"/","d","o","c","s">>,
     \* "/documentation"
     <<"/","d","o","c","u","m","e","n","t","a","t","i","o","n">>,
     \* "/guide"
     <<"/","g","u","i","d","e">>,
     \* "/api"
     <<"/","a","p","i">>,
     \* "/reference"
     <<"/","r","e","f","e","r","e","n","c","e">>,
     \* "docs."
     <<"d","o","c","s",".">>,
     \* "documentation."
     <<"d","o","c","u","m","e","n","t","a","t","i","o","n",".">>}

\* the literals of extractNavigation and trySitemap
navStrings ==
    [\* "http"
     http |-> <<"h","t","t","p">>,
     \* "#"
     hash |-> <<"#">>,
     \* "?"
     query |-> <<"?">>,
     \* "mailto:"
     mailto |-> <<"m","a","i","l","t","o",":">>,
     \* "javascript:"
     javascript |-> <<"j","a","v","a","s","c","r","i","p","t",":">>,
     \* "/"
     slash |-> <<"/">>,
     \* "doc"
     doc |-> <<"d","o","c">>,
     \* "guide"
     guide |-> <<"g","u","i","d","e">>,
     \* "api"
     api |-> <<"a","p","i">>,
     \* "/docs/"
     docs_dir |-> <<"/","d","o","c","s","/">>,
     \* "/guide/"
     guide_dir |-> <<"/","g","u","i","d","e","/">>,
     \* "Unknown"
     unknown |-> <<"U","n","k","n","o","w","n">>,
     \* "Documentation"
     documentation |-> <<"D","o","c","u","m","e","n","t","a","t","i","o","n">>]

\* sitemapUrls of trySitemap, without the origin
sitemapPaths ==
    <<\* "/sitemap.xml"
     <<"/","s","i","t","e","m","a","p",".","x","m","l">>,
     \* "/sitemap_index.xml"
     <<"/","s","i","t","e","m","a","p","_","i","n","d","e","x",".","x","m","l">>,
     \* "/docs/sitemap.xml"
     <<"/","d","o","c","s","/","s","i","t","e","m","a","p",".","x","m","l">>>>

\* commonPaths of probeCommonPaths
commonPaths ==
    <<\* "/docs"
     <<"/","d","o","c","s">>,
     \* "/docs/"
     <<"/","d","o","c","s","/">>,
     \* "/documentation"
     <<"/","d","o","c","u","m","e","n","t","a","t","i","o","n">>,
     \* "/guide"
     <<"/","g","u","i","d","e">>,
     \* "/guide/"
     <<"/","g","u","i","d","e","/">>,
     \* "/api"
     <<"/","a","p","i">>,
     \* "/api/"
     <<"/","a","p","i","/">>,
     \* "/reference"
     <<"/","r","e","f","e","r","e","n","c","e">>,
     \* "/getting-started"
     <<"/","g","e","t","t","i","n","g","-","s","t","a","r","t","e","d">>,
     \* "/introduction"
     <<"/","i","n","t","r","o","d","u","c","t","i","o","n">>,
     \* "/overview"
     <<"/","o","v","e","r","v","i","e","w">>,
     \* "/quickstart"
     <<"/","q","u","i","c","k","s","t","a","r","t">>>>

\* arguments of crawl
crawlUrls ==
    [\* "https://site.dev/docs"
     docs |-> <<"h","t","t","p","s",":","/","/","s","i","t","e",".","d","e","v","/","d","o","c","s">>,
     \* "https://Site.dev"
     plain |-> <<"h","t","t","p","s",":","/","/","S","i","t","e",".","d","e","v">>]

\* href attributes of the links of a page
navHrefs ==
    [\* "/docs/a"
     a |-> <<"/","d","o","c","s","/","a">>,
     \* "/docs/b"
     b |-> <<"/","d","o","c","s","/","b">>,
     \* "guide/c"
     c |-> <<"g","u","i","d","e","/","c">>,
     \* "/api/d#usage"
     d |-> <<"/","a","p","i","/","d","#","u","s","a","g","e">>,
     \* "https://site.dev/docs/e"
     e |-> <<"h","t","t","p","s",":","/","/","s","i","t","e",".","d","e","v","/","d","o","c","s","/","e">>,
     \* "/docs/a?tab=1"
     a_query |-> <<"/","d","o","c","s","/","a","?","t","a","b","=","1">>,
     \* "/about"
     about |-> <<"/","a","b","o","u","t">>,
     \* "/x/y"
     deep |-> <<"/","x","/","y">>,
     \* "#top"
     anchor |-> <<"#","t","o","p">>,
     \* "https://ext.org/docs/z"
     external |-> <<"h","t","t","p","s",":","/","/","e","x","t",".","o","r","g","/","d","o","c","s","/","z">>,
     \* "mailto:a@site.dev"
     mail |-> <<"m","a","i","l","t","o",":","a","@","s","i","t","e",".","d","e","v">>,
     \* "javascript:void(0)"
     script |-> <<"j","a","v","a","s","c","r","i","p","t",":","v","o","i","d","(","0",")">>,
     \* ""
     empty |-> <<>>]

\* texts of the links of a page
navTitles ==
    [\* "A"
     a |-> <<"A">>,
     \* " B "
     b |-> <<" ","B"," ">>,
     \* "Other"
     other |-> <<"O","t","h","e","r">>,
     \* "  "
     blank |-> <<" "," ">>]

\* loc elements of a sitemap
sitemapLocs ==
    [\* "https://site.dev/docs/a"
     a |-> <<"h","t","t","p","s",":","/","/","s","i","t","e",".","d","e","v","/","d","o","c","s","/","a">>,
     \* "https://site.dev/docs/getting-started"
     f |-> <<"h","t","t","p","s",":","/","/","s","i","t","e",".","d","e","v","/","d","o","c","s","/","g","e","t","t","i","n","g","-","s","t","a","r","t","e","d">>,
     \* " https://site.dev/guide/g-h "
     g |-> <<" ","h","t","t","p","s",":","/","/","s","i","t","e",".","d","e","v","/","g","u","i","d","e","/","g","-","h"," ">>,
     \* "https://site.dev/docs/a?lang=en"
     a_query |-> <<"h","t","t","p","s",":","/","/","s","i","t","e",".","d","e","v","/","d","o","c","s","/","a","?","l","a","n","g","=","e","n">>,
     \* "https://site.dev/blog/post"
     blog |-> <<"h","t","t","p","s",":","/","/","s","i","t","e",".","d","e","v","/","b","l","o","g","/","p","o","s","t">>,
     \* "https://site.dev"
     root |-> <<"h","t","t","p","s",":","/","/","s","i","t","e",".","d","e","v">>,
     \* "/docs/rel"
     relative |-> <<"/","d","o","c","s","/","r","e","l">>,
     \* " "
     blank |-> <<" ">>]

----------------------------------------------------------------------------
(* DocsCrawler: the string and URL operations it uses.                     *)

\* s.trim(), for strings whose white space is the space character
RECURSIVE Trim(_)
Trim(s) ==
    IF s = << >> THEN s
    ELSE IF Head(s) = " " THEN Trim(Tail(s))
    ELSE IF s[Len(s)] = " " THEN Trim(SubSeq(s, 1, Len(s) - 1))
    ELSE s

\* s.split(sep)[0] for a one-character separator
BeforeFirst(s, sep) ==
    LET i == IndexOf(s, sep)
    IN IF i = 0 THEN s ELSE SubSeq(s, 1, i - 1)

\* s.split('/').filter(Boolean)
RECURSIVE PathParts(_)
PathParts(s) ==
    IF s = << >> THEN << >>
    ELSE IF Head(s) = "/" THEN PathParts(Tail(s))
    ELSE <<BeforeFirst(s, navStrings.slash)>>
         \o PathParts(Substring(s, Len(BeforeFirst(s, navStrings.slash))))

\* c.toUpperCase() of one character
ToUpperChar(c) ==
    IF \E u \in DOMAIN UpperToLower : UpperToLower[u] = c
    THEN CHOOSE u \in DOMAIN UpperToLower : UpperToLower[u] = c
    ELSE c

\* s.replace(/-/g, ' ').replace(/\b\w/g, (c) => c.toUpperCase())
TitleFromPart(s) ==
    LET spaced == [i \in 1..Len(s) |-> IF s[i] = "-" THEN " " ELSE s[i]]
        \* the characters \w matches
        WordChars ==
            DOMAIN UpperToLower \cup {UpperToLower[c] : c \in DOMAIN UpperToLower}
            \cup {"0", "1", "2", "3", "4", "5", "6", "7", "8", "9", "_"}
    IN [i \in 1..Len(spaced) |->
          IF spaced[i] \in WordChars /\ (i = 1 \/ spaced[i - 1] \notin WordChars)
          THEN ToUpperChar(spaced[i]) ELSE spaced[i]]

\* new URL(s).origin, for http(s) URLs without a port
UrlOrigin(s) == UrlScheme(s) \o UrlHostname(s)

\* new URL(s).pathname, for http(s) URLs whose path has no dot segments and
\* no characters to escape
UrlPathname(s) ==
    LET rest == Substring(s, Len(UrlOrigin(s)))
        path == BeforeFirst(BeforeFirst(rest, navStrings.query), navStrings.hash)
    IN IF path = << >> THEN navStrings.slash ELSE path

\* new URL(path, base).href for a path that begins with one '/'
UrlResolve(path, base) == UrlOrigin(base) \o path

\* DOC_PATH_PATTERNS.some((pattern) => pattern.test(path))
IsDocPath(path) ==
    \E k \in 1..Len(DOC_PATH_PATTERNS) :
        StartsWith(ToLowerCase(path), DOC_PATH_PATTERNS[k])

----------------------------------------------------------------------------
(* DocsCrawler: a page as cheerio shows it to the crawler.                 *)
(*   title, h1      the text of <title> and of the first <h1>              *)
(*   navs           for the selectors of NAV_SELECTORS that match, in the  *)
(*                  order of the list: the index of the selector and the   *)
(*                  links (href, text) inside its first matching element   *)
(*   hasCodeBlocks, hasApiHeaders   as in looksLikeDocumentation           *)

\* looksLikeDocumentation($, url)
LooksLikeDocumentation(page, url) ==
    \/ \E mark \in docUrlMarks : Includes(ToLowerCase(url), mark)
    \/ page.hasCodeBlocks
    \/ page.navs # << >>
    \/ page.hasApiHeaders

\* the early returns of the link callback: no href, no title, a long title,
\* an external link, an anchor, a mailto: or javascript: link
SkipsLink(href, title, origin) ==
    \/ href = << >>
    \/ title = << >>
    \/ Len(title) > 100
    \/ StartsWith(href, navStrings.http) /\ ~StartsWith(href, origin)
    \/ StartsWith(href, navStrings.hash)
    \/ StartsWith(href, navStrings.mailto)
    \/ StartsWith(href, navStrings.javascript)

\* the path of a link without query and fragment
NavPath_Unstripped(href) ==
    IF StartsWith(href, navStrings.slash) THEN href ELSE navStrings.slash \o href

\* the normalized path of a link
NavPath(href) ==
    LET path == IF StartsWith(href, navStrings.slash) THEN href
                ELSE navStrings.slash \o href
    IN BeforeFirst(BeforeFirst(path, navStrings.hash), navStrings.query)

\* the path is kept: a documentation path, or at least two levels deep
KeepsPath(path) ==
    \/ IsDocPath(path)
    \/ Includes(path, navStrings.doc)
    \/ Includes(path, navStrings.guide)
    \/ Includes(path, navStrings.api)
    \/ Len(PathParts(path)) >= 2

\* the link callback of extractNavigation applied to the links of one
\* element, in document order; acc is [sections, seenPaths]
RECURSIVE NavLinks(_, _, _)
NavLinks(links, baseUrl, acc) ==
    IF links = << >> THEN acc
    ELSE LET href  == Head(links).href
             title == Trim(Head(links).text)
             path  == NavPath(href)
             next  ==
                IF SkipsLink(href, title, UrlOrigin(baseUrl)) THEN acc
                ELSE IF path \in acc.seenPaths THEN acc
                ELSE IF ~KeepsPath(path)
                THEN [acc EXCEPT !.seenPaths = acc.seenPaths \cup {path}]
                ELSE [sections  |-> Append(acc.sections,
                                           [title |-> title, path |-> path,
                                            url   |-> UrlResolve(path, baseUrl)]),
                      seenPaths |-> acc.seenPaths \cup {path}]
         IN NavLinks(Tail(links), baseUrl, next)

\* a selector loop that goes through every selector
RECURSIVE NavSelectors_All(_, _, _)
NavSelectors_All(navs, baseUrl, acc) ==
    IF navs = << >> THEN acc
    ELSE NavSelectors_All(Tail(navs), baseUrl, NavLinks(Head(navs).links, baseUrl, acc))

\* the selector loop of extractNavigation: it stops at the first selector
\* after which sections is not empty
RECURSIVE NavSelectors(_, _, _)
NavSelectors(navs, baseUrl, acc) ==
    IF navs = << >> THEN acc
    ELSE LET found == NavLinks(Head(navs).links, baseUrl, acc)
         IN IF found.sections # << >> THEN found
            ELSE NavSelectors(Tail(navs), baseUrl, found)

\* extractNavigation($, baseUrl)
ExtractNavigation(page, baseUrl) ==
    NavSelectors(page.navs, baseUrl, [sections |-> << >>, seenPaths |-> {}]).sections

\* the title trySitemap makes of a path
SitemapTitle(path) ==
    LET pathParts == PathParts(path)
    IN IF pathParts = << >> THEN navStrings.unknown
       ELSE OrElse(TitleFromPart(pathParts[Len(pathParts)]), navStrings.unknown)

\* the loc callback of trySitemap over the loc elements of one sitemap, in
\* document order, added to sections; new URL(url) throws at a loc that is
\* not an absolute URL and the rest of the sitemap is not read
RECURSIVE SitemapLocs(_, _)
SitemapLocs(locs, sections) ==
    IF locs = << >> THEN sections
    ELSE LET url  == Trim(Head(locs))
             path == UrlPathname(url)
         IN IF url = << >> THEN SitemapLocs(Tail(locs), sections)
            ELSE IF ~UrlParses(url) THEN sections
            ELSE IF \/ IsDocPath(path)
                    \/ Includes(url, navStrings.docs_dir)
                    \/ Includes(url, navStrings.guide_dir)
            THEN SitemapLocs(Tail(locs),
                             Append(sections, [title |-> SitemapTitle(path),
                                               path |-> path, url |-> url]))
            ELSE SitemapLocs(Tail(locs), sections)

\* the merge that adds every sitemap section
Merge_All(sections, sitemapSections) == sections \o sitemapSections

\* the merge of crawl: the sitemap sections whose path is not the path of a
\* section found before
Merge(sections, sitemapSections) ==
    LET existingPaths == {sections[i].path : i \in 1..Len(sections)}
    IN sections \o SelectSeq(sitemapSections,
                             LAMBDA section : section.path \notin existingPaths)

\* probeCommonPaths that takes every probe for answered
ProbeCommonPaths_All(baseUrl, alive) ==
    [k \in 1..Len(commonPaths) |->
        [title |-> navStrings.documentation, path |-> commonPaths[k],
         url |-> UrlOrigin(baseUrl) \o commonPaths[k]]]

\* probeCommonPaths(baseUrl): the common paths whose HEAD request is answered
\* with a 2xx status, in the order of commonPaths
ProbeCommonPaths(baseUrl, alive) ==
    LET \* the last part of the path, capitalized, or 'Documentation'
        ProbeTitle(path) ==
            LET parts == PathParts(path)
            IN IF parts = << >> THEN navStrings.documentation
               ELSE OrElse(TitleFromPart(parts[1]), navStrings.documentation)
        probe(path) == [title |-> ProbeTitle(path), path |-> path,
                        url |-> UrlOrigin(baseUrl) \o path]
    IN SelectSeq([k \in 1..Len(commonPaths) |-> probe(commonPaths[k])],
                 LAMBDA section : section.url \in alive)
----------------------------------------------------------------------------
(* DocsCrawler.crawl: the result and the state of an invocation.           *)

\* the CrawlResult crawl starts with
NewCrawlResult(url) ==
    [baseUrl         |-> url,
     isValidDocs     |-> FALSE,
     title           |-> Undefined,
     sections        |-> << >>,
     sitemapFound    |-> FALSE,
     navigationFound |-> FALSE]

\* a page without anything
NoPage ==
    [title |-> << >>, h1 |-> << >>, navs |-> << >>,
     hasCodeBlocks |-> FALSE, hasApiHeaders |-> FALSE]

IdleCrawl ==
    [pc              |-> "idle",       \* idle, awaitPage, awaitSitemap, awaitProbes, done
     url             |-> Undefined,
     response        |-> [kind |-> "none", page |-> NoPage],
     result          |-> NewCrawlResult(Undefined),
     navSections     |-> << >>,        \* what extractNavigation returned
     sitemapSections |-> << >>,        \* sections of trySitemap
     tried           |-> 0,            \* the sitemap URLs requested so far
     reqs            |-> << >>]        \* the requests issued, in order

----------------------------------------------------------------------------
(* DynamicPlugin and ProjectDocsServer: the fields of the objects.         *)

\* a DynamicPlugin after its constructor, for a package with this docsUrl
NewPlugin(docsUrl) ==
    [created      |-> TRUE,
     docsUrl      |-> docsUrl,       \* packageInfo.docsUrl
     crawlResult  |-> << >>,         \* << >> for null, else <<the CrawlResult>>
     crawlPromise |-> Null,          \* null, or <<"promise">> once crawl was called
     crawls       |-> 0,             \* the calls of this.crawler.crawl so far
     fetches      |-> << >>]         \* the fetchDocs calls, in the order they start

\* the fields of a ProjectDocsServer after its constructor
NewServer ==
    [created              |-> FALSE,
     autoDiscoveryEnabled |-> TRUE,
     projectInfo          |-> << >>,   \* << >> for null, else <<the ProjectInfo>>
     activePlugins        |-> << >>,
     builtInPackages      |-> {},
     loads                |-> << >>,   \* the loadProjectInfo calls, in the order they start
     requests             |-> << >>]   \* the request handlers, in the order they start


----------------------------------------------------------------------------
(* Bounds and program constants.                                           *)

\* discoverPackage invocations in one behaviour (direct and batch children)
MaxCalls == 2

\* names in one discoverPackages call
MaxBatchNames == 2

\* clearCache calls that are counted
MaxClears == 1

\* fetchDocs calls of one plugin
MaxFetches == 2

\* batchSize of discoverPackages
batchSize == 10


----------------------------------------------------------------------------
(* State.                                                                  *)

VARIABLES
    cache,      \* PackageScanner.cache: package name -> result object
    heap,       \* the result objects constructed so far, by identity
    calls,      \* the discoverPackage invocations and where each stands
    batch,      \* the discoverPackages invocation
    live,       \* the URLs that answer a HEAD request with a 2xx status
    clears,     \* number of clearCache calls so far
    crawl,      \* the DocsCrawler.crawl invocation and where it stands
    plugin,     \* a DynamicPlugin and its fetchDocs calls
    server      \* the ProjectDocsServer, its loads and its requests

vars == <<cache, heap, calls, batch, live, clears, crawl, plugin, server>>

\* the discoverPackage invocations so far, numbered in the order they began
CallIds == DOMAIN calls

\* the HTTP request a call has issued
RegistryRequest(packageName) ==
    <<"GET", scanStrings.registry \o ReplaceFirst(packageName, scanStrings.slash, scanStrings.pct2F)>>
HeadRequest(url) == <<"HEAD", url>>
PageRequest(url) == <<"GET", url>>

NoResponse == [kind |-> "none", data |-> NoData]

IdleCall ==
    [pc         |-> "idle",        \* awaitMeta, probe, awaitHomepage, done, threw
     name       |-> Undefined,
     obj        |-> 0,             \* the result object this call constructed
     ret        |-> 0,             \* the object the call returned
     hit        |-> FALSE,         \* answered from the cache
     response   |-> NoResponse,    \* the registry response it received
     metadata   |-> NullMetadata,
     stage      |-> "none",        \* which tier is probing
     cands      |-> << >>,         \* urlsToTry
     idx        |-> 0,             \* the candidate being probed
     tiers      |-> << >>,         \* the tiers consulted, in order
     assigned   |-> << >>,         \* the tiers that assigned docsUrl, in order
     confs      |-> << >>,         \* the values assigned to confidence, in order
     reqs       |-> << >>,         \* the requests issued, in order
     startClear |-> 0,             \* clearCache count when the call started
     endClear   |-> 0]             \* clearCache count when the call returned

IdleBatch ==
    [status   |-> "idle",          \* idle, running, done, threw
     names    |-> << >>,           \* packageNames
     i        |-> 0,               \* the loop variable
     children |-> << >>,           \* the calls of the current batch, in order
     results  |-> << >>]           \* results: package name -> result object

BaseInit ==
    /\ cache = << >>
    /\ heap = << >>
    /\ calls = << >>
    /\ batch = IdleBatch
    /\ clears = 0
    /\ crawl = IdleCrawl
    /\ plugin = [NewPlugin(Null) EXCEPT !.created = FALSE]
    /\ server = NewServer

----------------------------------------------------------------------------
(* discoverPackage, from one await to the next.  Each operator takes the   *)
(* call and its result object and gives both back as [call, result].       *)

\* the registry-page fallback assigned although docsUrl is already set
Finish_Unguarded(call, result) ==
    [call   |-> [call EXCEPT !.pc = "done", !.ret = call.obj,
                             !.tiers = call.tiers \o <<"npm">>,
                             !.assigned = call.assigned \o <<"npm">>,
                             !.confs = call.confs \o <<"low">>],
     result |-> [result EXCEPT !.docsUrl = result.npmUrl, !.confidence = "low"]]

\* Priority 5, Priority 6 and the return
Finish(call, result) ==
    LET github == ~Truthy(result.docsUrl) /\ Truthy(result.githubUrl)
        r5     == IF github
                  THEN [result EXCEPT !.docsUrl = result.githubUrl, !.confidence = "medium"]
                  ELSE result
        npm    == ~Truthy(r5.docsUrl)
        r6     == IF npm
                  THEN [r5 EXCEPT !.docsUrl = r5.npmUrl, !.confidence = "low"]
                  ELSE r5
        log    == (IF github THEN <<"github">> ELSE << >>)
                  \o (IF npm THEN <<"npm">> ELSE << >>)
        set    == (IF github THEN <<"medium">> ELSE << >>)
                  \o (IF npm THEN <<"low">> ELSE << >>)
    IN [call   |-> [call EXCEPT !.pc = "done", !.ret = call.obj,
                                !.tiers = call.tiers \o log,
                                !.assigned = call.assigned \o log,
                                !.confs = call.confs \o set],
        result |-> r6]

\* Priority 4, up to the fetch of the homepage
AnalysisStage(call, result) ==
    IF /\ ~Truthy(result.docsUrl)
       /\ Truthy(call.metadata.homepage)
       /\ ~IsRepositoryLinkForAnalysis(ToLowerCase(call.metadata.homepage))
    THEN [call   |-> [call EXCEPT !.pc = "awaitHomepage", !.stage = "analysis",
                                  !.tiers = call.tiers \o <<"analysis">>,
                                  !.reqs = call.reqs
                                           \o <<PageRequest(call.metadata.homepage)>>],
          result |-> result]
    ELSE Finish(call, result)

\* the generic tier probing although docsUrl is already set
CommonStage_Unguarded(call, result) ==
    LET urlsToTry == CommonCandidates(call.name, call.metadata.homepage,
                                      result.githubUrl)
    IN [call   |-> [call EXCEPT !.pc = "probe", !.stage = "generic",
                                !.cands = urlsToTry, !.idx = 1,
                                !.tiers = call.tiers \o <<"generic">>,
                                !.reqs = call.reqs
                                         \o <<HeadRequest(urlsToTry[1].url)>>],
        result |-> result]

\* Priority 3, up to the first HEAD request
CommonStage(call, result) ==
    IF ~Truthy(result.docsUrl)
    THEN LET urlsToTry == CommonCandidates(call.name, call.metadata.homepage,
                                           result.githubUrl)
         IN [call   |-> [call EXCEPT !.pc = "probe", !.stage = "generic",
                                     !.cands = urlsToTry, !.idx = 1,
                                     !.tiers = call.tiers \o <<"generic">>,
                                     !.reqs = call.reqs
                                              \o <<HeadRequest(urlsToTry[1].url)>>],
             result |-> result]
    ELSE AnalysisStage(call, result)

\* the organization tier left out
OrgStage_Skipped(call, result) == CommonStage(call, result)

\* Priority 2, up to the first HEAD request
OrgStage(call, result) ==
    IF ~Truthy(result.docsUrl) /\ StartsWith(call.name, <<"@">>)
    THEN LET urlsToTry == OrgCandidates(call.name)
             consulted == [call EXCEPT !.tiers = call.tiers \o <<"organization">>]
         IN IF urlsToTry = << >>
            THEN CommonStage(consulted, result)
            ELSE [call   |-> [consulted EXCEPT
                                  !.pc = "probe", !.stage = "organization",
                                  !.cands = urlsToTry, !.idx = 1,
                                  !.reqs = call.reqs
                                           \o <<HeadRequest(urlsToTry[1].url)>>],
                  result |-> result]
    ELSE CommonStage(call, result)

\* the override return left out
OverrideReturns_Never(result) == FALSE

\* the override return of line 520: if (result.docsUrl) { cache; return }
OverrideReturns(result) == Truthy(result.docsUrl)

\* from the registry response to the next await, the return or the throw
AfterMetadata(call, result, response) ==
    LET metadata == GetPackageMetadata(call.name, response)
        got      == [call EXCEPT !.response = response, !.metadata = metadata]
    IN IF metadata.isNull
       THEN [call |-> [got EXCEPT !.pc = "done", !.ret = call.obj], result |-> result]
       ELSE IF ExtractGitHubUrlThrows(metadata.repository)
       THEN [call   |-> [got EXCEPT !.pc = "threw"],
             result |-> [result EXCEPT !.version = metadata.version,
                                       !.description = metadata.description,
                                       !.keywords = metadata.keywords]]
       ELSE LET populated == PopulateFromMetadata(result, metadata)
            IN IF OverrideReturns(populated)
               THEN [call |-> [got EXCEPT !.pc = "done", !.ret = call.obj],
                     result |-> populated]
               ELSE IF HomepageTierThrows(metadata)
               THEN [call |-> [got EXCEPT !.pc = "threw"], result |-> populated]
               ELSE LET r1   == HomepageTier(populated, metadata)
                        seen == [got EXCEPT
                                   !.tiers = IF Truthy(metadata.homepage)
                                             THEN <<"homepage">> ELSE << >>,
                                   !.assigned = IF r1.docsUrl # populated.docsUrl
                                                THEN got.assigned \o <<"homepage">>
                                                ELSE got.assigned,
                                   !.confs = IF r1.docsUrl # populated.docsUrl
                                             THEN got.confs \o <<r1.confidence>>
                                             ELSE got.confs]
                    IN OrgStage(seen, r1)

\* a probe that fails ends its tier
ProbeStep_StopsOnFailure(call, result, outcome) ==
    LET candidate == call.cands[call.idx]
        proceed(c, r) == IF call.stage = "organization"
                         THEN CommonStage(c, r) ELSE AnalysisStage(c, r)
    IN IF outcome = "ok"
       THEN proceed([call EXCEPT !.assigned = call.assigned \o <<call.stage>>,
                                 !.confs = call.confs \o <<candidate.confidence>>],
                    [result EXCEPT !.docsUrl = candidate.url,
                                   !.confidence = candidate.confidence])
       ELSE proceed(call, result)

\* the answer to the HEAD request of candidate idx: accept it, probe the
\* next candidate, or leave the tier with nothing
ProbeStep(call, result, outcome) ==
    LET candidate == call.cands[call.idx]
        proceed(c, r) == IF call.stage = "organization"
                         THEN CommonStage(c, r) ELSE AnalysisStage(c, r)
    IN IF outcome = "ok"
       THEN proceed([call EXCEPT !.assigned = call.assigned \o <<call.stage>>,
                                 !.confs = call.confs \o <<candidate.confidence>>],
                    [result EXCEPT !.docsUrl = candidate.url,
                                   !.confidence = candidate.confidence])
       ELSE IF call.idx < Len(call.cands)
       THEN [call   |-> [call EXCEPT
                            !.idx = call.idx + 1,
                            !.reqs = call.reqs
                                     \o <<HeadRequest(call.cands[call.idx + 1].url)>>],
             result |-> result]
       ELSE proceed(call, result)

\* the answer to the homepage fetch of the content analysis
AnalysisStep(call, result, response) ==
    LET docUrl == AnalyzeHomepageForDocs(call.metadata.homepage, response)
    IN IF Truthy(docUrl)
       THEN Finish([call EXCEPT !.assigned = call.assigned \o <<"analysis">>,
                                !.confs = call.confs \o <<"high">>],
                   [result EXCEPT !.docsUrl = docUrl, !.confidence = "high"])
       ELSE Finish(call, result)

\* discoverPackage from the step after an await to its end, with the URLs
\* of alive answering HEAD requests with a 2xx status and the homepage fetch
\* answered by any of pages: the set of the [call, result] it can end with
RECURSIVE RunCall(_, _, _)
RunCall(step, alive, pages) ==
    IF step.call.pc = "probe"
    THEN RunCall(ProbeStep(step.call, step.result,
                           IF step.call.cands[step.call.idx].url \in alive
                           THEN "ok" ELSE "non2xx"),
                 alive, pages)
    ELSE IF step.call.pc = "awaitHomepage"
    THEN UNION {RunCall(AnalysisStep(step.call, step.result, response), alive, pages) :
                   response \in pages}
    ELSE {step}

\* a cache that is never consulted
CacheHas_Never(packageName) == FALSE

\* this.cache.has(packageName)
CacheHas(packageName) == packageName \in DOMAIN cache

\* discoverPackage up to its first await: the cache lookup, the result
\* object, the override lookup and the registry request
BeginCall(c, packageName) ==
    IF CacheHas(packageName)
    THEN [IdleCall EXCEPT !.pc = "done", !.name = packageName, !.hit = TRUE,
                          !.ret = cache[packageName],
                          !.startClear = clears, !.endClear = clears]
    ELSE [IdleCall EXCEPT !.pc = "awaitMeta", !.name = packageName, !.obj = c,
                          !.assigned = IF Truthy(KnownOverride(packageName))
                                       THEN <<"override">> ELSE << >>,
                          !.confs = IF Truthy(KnownOverride(packageName))
                                    THEN <<"low", "high">> ELSE <<"low">>,
                          !.reqs = <<RegistryRequest(packageName)>>,
                          !.startClear = clears]

\* a result object that carries something of the call that built it
BeginHeap_PerCall(c, packageName) ==
    IF CacheHas(packageName) THEN << >>
    ELSE c :> [ApplyOverride(NewResult(packageName))
                  EXCEPT !.description = IF c % 2 = 0 THEN Undefined ELSE Null]

\* the object BeginCall allocates for call c, if any
BeginHeap(c, packageName) ==
    IF CacheHas(packageName) THEN << >>
    ELSE c :> ApplyOverride(NewResult(packageName))

----------------------------------------------------------------------------
(* Inputs: registry responses, page responses and live URLs.               *)

PackageNames ==
    {npmNames.lodash, npmNames.yup, npmNames.trpc_server, npmNames.vercel_og, npmNames.vercel_analytics,
     npmNames.aws_s3, npmNames.foo_bar, npmNames.left_pad}

\* a registry document whose fields sit under versions[latest]
Packument(homepage, repository) ==
    [kind |-> "ok",
     data |-> [latest      |-> metadataValues.version,
               versions    |-> (metadataValues.version :> [description |-> metadataValues.description,
                                            homepage    |-> homepage,
                                            repository  |-> repository,
                                            keywords    |-> metadataValues.keywords]),
               description |-> Undefined,
               homepage    |-> Undefined,
               repository  |-> NoRepository,
               keywords    |-> Undefined]]

\* the answers of the registry
RegistryResponses ==
    LET FailedResponses ==
            {[kind |-> k, data |-> NoData] : k \in {"neterr", "non2xx", "badjson"}}
        \* a registry document without dist-tags.latest: only top-level fields count
        PackumentNoLatest ==
            [kind |-> "ok",
             data |-> [latest      |-> Undefined,
                       versions    |-> (metadataValues.version :> [description |-> Undefined,
                                                    homepage    |-> homepageUrls.version,
                                                    repository  |-> NoRepository,
                                                    keywords    |-> Undefined]),
                       description |-> metadataValues.description,
                       homepage    |-> homepageUrls.other,
                       repository  |-> RepositoryString(repositoryUrls.git_https),
                       keywords    |-> metadataValues.keywords]]
        \* a registry document with a field at both levels
        PackumentBothLevels ==
            [kind |-> "ok",
             data |-> [latest      |-> metadataValues.version,
                       versions    |-> (metadataValues.version :> [description |-> Undefined,
                                                    homepage    |-> homepageUrls.version,
                                                    repository  |-> NoRepository,
                                                    keywords    |-> Undefined]),
                       description |-> metadataValues.description,
                       homepage    |-> homepageUrls.other,
                       repository  |-> RepositoryObject(repositoryUrls.scp),
                       keywords    |-> metadataValues.keywords]]
        Homepages ==
            {Undefined, NonString, homepageUrls.repo, homepageUrls.pages, homepageUrls.plain, homepageUrls.dev, homepageUrls.gitlab, homepageUrls.npm,
             homepageUrls.pages_repo, homepageUrls.noscheme_repo, homepageUrls.mention}
        Repositories ==
            {NoRepository, RepositoryString(repositoryUrls.git_https), RepositoryObject(repositoryUrls.scp),
             RepositoryObject(repositoryUrls.gitlab), RepositoryObject(NonString)}
    IN FailedResponses
       \cup {Packument(h, r) : h \in Homepages, r \in Repositories}
       \cup {PackumentNoLatest, PackumentBothLevels}

\* the inputs of the specifications with several calls
SomePackageNames == {npmNames.lodash, npmNames.left_pad}

SomeRegistryResponses ==
    {[kind |-> "non2xx", data |-> NoData],
     Packument(Undefined, RepositoryString(repositoryUrls.git_https)),
     Packument(NonString, NoRepository)}

\* the answers to the homepage fetch of the content analysis
PageResponses ==
    {[kind |-> "neterr", hrefs |-> << >>], [kind |-> "non2xx", hrefs |-> << >>],
     [kind |-> "ok", hrefs |-> << >>],
     [kind |-> "ok", hrefs |-> <<pageHrefs.about, pageHrefs.relative, pageHrefs.docs_rel, pageHrefs.docs_abs>>],
     [kind |-> "ok", hrefs |-> <<pageHrefs.upper, pageHrefs.docs_abs>>]}

UrlsOf(candidates) == {candidates[i].url : i \in 1..Len(candidates)}

\* every URL a discovery of these names can probe under these responses
ProbeUrls(names, responses) ==
    UNION {UrlsOf(OrgCandidates(n)) : n \in names}
    \cup UNION {UrlsOf(CommonCandidates(n,
                    IF IsString(GetPackageMetadata(n, resp).homepage)
                    THEN GetPackageMetadata(n, resp).homepage ELSE Undefined,
                    IF ExtractGitHubUrlThrows(GetPackageMetadata(n, resp).repository)
                    THEN Null
                    ELSE ExtractGitHubUrl(GetPackageMetadata(n, resp).repository)))
                : n \in names, resp \in {r \in responses : r.kind = "ok"}}

\* no URL is live, one is, all are, all but one are
LiveSets(urls) ==
    {{}, urls} \cup {{u} : u \in urls} \cup {urls \ {u} : u \in urls}

\* the ends of a discoverPackage(packageName) call when the registry
\* answers response and the URLs of alive exist
Discover(packageName, response, alive) ==
    LET call == BeginCall(1, packageName)
    IN IF CacheHas(packageName)
       THEN {[call |-> call, result |-> heap[call.ret]]}
       ELSE RunCall(AfterMetadata(call, BeginHeap(1, packageName)[1], response),
                    alive, PageResponses)

----------------------------------------------------------------------------
(* Actions.                                                                *)

\* the calls are numbered in the order they start
NextCallId == Len(calls) + 1

\* a call that has returned records the clearCache count of that moment
Settle(call) ==
    IF call.pc = "done" THEN [call EXCEPT !.endClear = clears] ELSE call

\* a cache.set that drops the entries of the other names
Commit_DropsOthers(c, step) ==
    /\ calls' = [calls EXCEPT ![c] = Settle(step.call)]
    /\ heap' = [heap EXCEPT ![calls[c].obj] = step.result]
    /\ cache' = IF step.call.pc = "done"
                THEN (calls[c].name :> calls[c].obj)
                ELSE cache

\* the step of call c has produced [call, result]: store both, and run
\* this.cache.set(packageName, result) when the call returned
Commit(c, step) ==
    /\ calls' = [calls EXCEPT ![c] = Settle(step.call)]
    /\ heap' = [heap EXCEPT ![calls[c].obj] = step.result]
    /\ cache' = IF step.call.pc = "done"
                THEN (calls[c].name :> calls[c].obj) @@ cache
                ELSE cache

\* discoverPackage(packageName) is called and runs to its first await
Start(c, packageName) ==
    /\ c = NextCallId
    /\ calls' = Append(calls, BeginCall(c, packageName))
    /\ heap' = heap @@ BeginHeap(c, packageName)
    /\ UNCHANGED <<plugin, server, crawl, cache, batch, live, clears>>

\* the same, when no other call is in flight
StartAlone(c, packageName) ==
    /\ \A d \in CallIds : calls[d].pc \in {"done", "threw"}
    /\ Start(c, packageName)

\* the registry answers the metadata fetch of call c
RegistryResponse(c, response) ==
    /\ c \in CallIds
    /\ calls[c].pc = "awaitMeta"
    /\ Commit(c, AfterMetadata(calls[c], heap[calls[c].obj], response))
    /\ UNCHANGED <<plugin, server, crawl, batch, live, clears>>

\* a HEAD probe or the homepage fetch of call c is answered
HttpResponse(c) ==
    /\ c \in CallIds
    /\ calls[c].pc \in {"probe", "awaitHomepage"}
    /\ IF calls[c].pc = "probe"
       THEN \E failure \in {"non2xx", "error"} :
              Commit(c, ProbeStep(calls[c], heap[calls[c].obj],
                                  IF calls[c].cands[calls[c].idx].url \in live
                                  THEN "ok" ELSE failure))
       ELSE \E response \in PageResponses :
              Commit(c, AnalysisStep(calls[c], heap[calls[c].obj], response))
    /\ UNCHANGED <<plugin, server, crawl, batch, live, clears>>

\* clearCache()
ClearCache ==
    /\ clears < MaxClears
    /\ cache' = << >>
    /\ clears' = clears + 1
    /\ UNCHANGED <<plugin, server, crawl, heap, calls, batch, live>>

\* batch.map((name) => this.discoverPackage(name)) for the slice that
\* starts at offset i: every call runs to its first await, in order
SpawnBatch(packageNames, i, results) ==
    LET slice == SubSeq(packageNames, i + 1,
                        IF i + batchSize < Len(packageNames)
                        THEN i + batchSize ELSE Len(packageNames))
        first == NextCallId
        ids   == [k \in 1..Len(slice) |-> first + k - 1]
    IN /\ calls' = calls \o [k \in 1..Len(slice) |-> BeginCall(ids[k], slice[k])]
       /\ heap' = [c \in DOMAIN heap \cup {ids[k] : k \in {j \in 1..Len(slice) :
                                               ~CacheHas(slice[j])}} |->
                      IF c \in DOMAIN heap THEN heap[c]
                      ELSE ApplyOverride(NewResult(slice[c - first + 1]))]
       /\ batch' = [status |-> "running", names |-> packageNames, i |-> i,
                    children |-> ids, results |-> results]

\* results.set(discovery.name, discovery) for each discovery, in order
RECURSIVE SetAll(_, _)
SetAll(results, discoveries) ==
    IF discoveries = << >> THEN results
    ELSE SetAll((heap[Head(discoveries)].name :> Head(discoveries)) @@ results,
                Tail(discoveries))

\* discoverPackages(packageNames) is called
StartBatch(packageNames) ==
    /\ batch.status = "idle"
    /\ IF packageNames = << >>
       THEN /\ batch' = [batch EXCEPT !.status = "done"]
            /\ UNCHANGED <<calls, heap>>
       ELSE SpawnBatch(packageNames, 0, << >>)
    /\ UNCHANGED <<plugin, server, crawl, cache, live, clears>>

\* the loop going on as soon as one discovery of the batch has returned
BatchResolves_Early ==
    /\ batch.status = "running"
    /\ \E k \in 1..Len(batch.children) : calls[batch.children[k]].pc = "done"
    /\ LET returned    == SelectSeq(batch.children, LAMBDA c : calls[c].pc = "done")
           discoveries == [k \in 1..Len(returned) |-> calls[returned[k]].ret]
           collected   == SetAll(batch.results, discoveries)
       IN IF batch.i + batchSize < Len(batch.names)
          THEN SpawnBatch(batch.names, batch.i + batchSize, collected)
          ELSE /\ batch' = [batch EXCEPT !.status = "done", !.results = collected,
                                         !.i = batch.i + batchSize]
               /\ UNCHANGED <<calls, heap>>
    /\ UNCHANGED <<plugin, server, crawl, cache, live, clears>>

\* Promise.all of the current batch resolves: collect, then the next batch
\* or the return
BatchResolves ==
    /\ batch.status = "running"
    /\ \A k \in 1..Len(batch.children) : calls[batch.children[k]].pc = "done"
    /\ LET discoveries == [k \in 1..Len(batch.children) |->
                              calls[batch.children[k]].ret]
           collected   == SetAll(batch.results, discoveries)
       IN IF batch.i + batchSize < Len(batch.names)
          THEN SpawnBatch(batch.names, batch.i + batchSize, collected)
          ELSE /\ batch' = [batch EXCEPT !.status = "done", !.results = collected,
                                         !.i = batch.i + batchSize]
               /\ UNCHANGED <<calls, heap>>
    /\ UNCHANGED <<plugin, server, crawl, cache, live, clears>>

\* Promise.all rejects as soon as one discovery of the batch throws
BatchRejects ==
    /\ batch.status = "running"
    /\ \E k \in 1..Len(batch.children) : calls[batch.children[k]].pc = "threw"
    /\ batch' = [batch EXCEPT !.status = "threw"]
    /\ UNCHANGED <<plugin, server, crawl, cache, heap, calls, live, clears>>
----------------------------------------------------------------------------
(* DocsCrawler.crawl, from one await to the next.                          *)

\* crawl(url) up to its first await, the page fetch
BeginCrawl(url) ==
    [IdleCrawl EXCEPT !.pc = "awaitPage", !.url = url,
                      !.result = NewCrawlResult(url),
                      !.reqs = <<PageRequest(url)>>]

\* a status check that lets every answered request pass
ResponseOk_Any(response) == response.kind # "neterr"

\* fetch resolved and response.ok
ResponseOk(response) == response.kind = "ok"

\* the request for sitemap number k
SitemapRequest(url, k) == PageRequest(UrlOrigin(url) \o sitemapPaths[k])

\* the end of crawl after trySitemap returned sitemapSections: the merge,
\* then the common paths when there is still no section
AfterSitemap(c, sitemapSections) ==
    LET merged == IF sitemapSections # << >>
                  THEN [c.result EXCEPT
                           !.sitemapFound = TRUE,
                           !.sections = Merge(c.result.sections, sitemapSections)]
                  ELSE c.result
        seen   == [c EXCEPT !.result = merged, !.sitemapSections = sitemapSections]
    IN IF merged.sections = << >>
       THEN [seen EXCEPT !.pc = "awaitProbes",
                         !.reqs = c.reqs \o [k \in 1..Len(commonPaths) |->
                                      HeadRequest(UrlOrigin(c.url) \o commonPaths[k])]]
       ELSE [seen EXCEPT !.pc = "done"]

\* crawl from the answer of the page fetch to the first sitemap request
AfterPage(c, response) ==
    LET got == [c EXCEPT !.response = response]
    IN IF ~ResponseOk(response) THEN [got EXCEPT !.pc = "done"]
       ELSE LET page        == response.page
                navSections == ExtractNavigation(page, c.url)
                described   == [c.result EXCEPT
                                   !.title = OrElse(Trim(page.title), Trim(page.h1)),
                                   !.isValidDocs = LooksLikeDocumentation(page, c.url)]
                result      == IF navSections # << >>
                               THEN [described EXCEPT !.sections = navSections,
                                                      !.navigationFound = TRUE]
                               ELSE described
            IN [got EXCEPT !.pc = "awaitSitemap", !.result = result,
                           !.navSections = navSections, !.tried = 1,
                           !.reqs = c.reqs \o <<SitemapRequest(c.url, 1)>>]

\* the loc callback throws at some loc of the sitemap
SitemapThrows(locs) ==
    \E i \in 1..Len(locs) : Trim(locs[i]) # << >> /\ ~UrlParses(Trim(locs[i]))

\* trySitemap from the answer for sitemap number tried to the next request
\* or to its return
AfterSitemapResponse(c, response) ==
    LET sections == IF response.kind = "ok"
                    THEN SitemapLocs(response.locs, c.sitemapSections)
                    ELSE c.sitemapSections
        stops    == /\ response.kind = "ok"
                    /\ ~SitemapThrows(response.locs)
                    /\ sections # << >>
    IN IF stops \/ c.tried = Len(sitemapPaths)
       THEN AfterSitemap(c, sections)
       ELSE [c EXCEPT !.sitemapSections = sections, !.tried = c.tried + 1,
                      !.reqs = c.reqs \o <<SitemapRequest(c.url, c.tried + 1)>>]
----------------------------------------------------------------------------
(* DocsCrawler: inputs, actions and specification.                         *)

Link(href, text) == [href |-> href, text |-> text]

\* the pages crawl is given
crawlPages ==
    LET \* a link text of 101 characters
        LongText == [k \in 1..101 |-> "x"]
    IN [\* a sidebar of five distinct internal links
        fiveLinks |->
          [NoPage EXCEPT
             !.title = navTitles.b,
             !.navs = << [selector |-> 1,
                          links |-> << Link(navHrefs.a, navTitles.a),
                                       Link(navHrefs.b, navTitles.b),
                                       Link(navHrefs.c, navTitles.other),
                                       Link(navHrefs.d, navTitles.other),
                                       Link(navHrefs.e, navTitles.other) >>] >>],
        \* a sidebar of two documentation links
        twoLinks |->
          [NoPage EXCEPT
             !.h1 = navTitles.a,
             !.navs = << [selector |-> 1,
                          links |-> << Link(navHrefs.a, navTitles.a),
                                       Link(navHrefs.b, navTitles.b) >>] >>],
        \* a sidebar with links of every kind the callback tells apart
        mixedLinks |->
          [NoPage EXCEPT
             !.navs = << [selector |-> 2,
                          links |-> << Link(navHrefs.anchor, navTitles.other),
                                       Link(navHrefs.external, navTitles.other),
                                       Link(navHrefs.mail, navTitles.other),
                                       Link(navHrefs.script, navTitles.other),
                                       Link(navHrefs.empty, navTitles.other),
                                       Link(navHrefs.about, navTitles.other),
                                       Link(navHrefs.b, navTitles.blank),
                                       Link(navHrefs.c, LongText),
                                       Link(navHrefs.a, navTitles.a),
                                       Link(navHrefs.a_query, navTitles.other),
                                       Link(navHrefs.deep, navTitles.other) >>] >>],
        \* two selectors match: the element of the first has no link that is kept
        twoSelectors |->
          [NoPage EXCEPT
             !.navs = << [selector |-> 3,
                          links |-> << Link(navHrefs.about, navTitles.other),
                                       Link(navHrefs.anchor, navTitles.other) >>],
                         [selector |-> 9,
                          links |-> << Link(navHrefs.about, navTitles.other),
                                       Link(navHrefs.b, navTitles.b) >>] >>],
        \* two selectors match, each with links that are kept
        bothSelectors |->
          [NoPage EXCEPT
             !.navs = << [selector |-> 1,
                          links |-> << Link(navHrefs.a, navTitles.a),
                                       Link(navHrefs.about, navTitles.other) >>],
                         [selector |-> 5,
                          links |-> << Link(navHrefs.a, navTitles.other),
                                       Link(navHrefs.b, navTitles.b) >>] >>],
        \* a page without navigation
        bare |-> [NoPage EXCEPT !.title = navTitles.other, !.hasCodeBlocks = TRUE]]

\* crawl(url) is called and runs to the page fetch
Crawl(url) ==
    /\ crawl.pc = "idle"
    /\ crawl' = BeginCrawl(url)
    /\ UNCHANGED <<plugin, server, cache, heap, calls, batch, live, clears>>

\* the page fetch is answered
PageArrives(response) ==
    /\ crawl.pc = "awaitPage"
    /\ crawl' = AfterPage(crawl, response)
    /\ UNCHANGED <<plugin, server, cache, heap, calls, batch, live, clears>>

\* a sitemap fetch is answered
SitemapArrives(response) ==
    /\ crawl.pc = "awaitSitemap"
    /\ crawl' = AfterSitemapResponse(crawl, response)
    /\ UNCHANGED <<plugin, server, cache, heap, calls, batch, live, clears>>

\* Promise.all of the common-path probes resolves
ProbesResolve ==
    /\ crawl.pc = "awaitProbes"
    /\ crawl' = [crawl EXCEPT
                   !.pc = "done",
                   !.result = [crawl.result EXCEPT
                                  !.sections = ProbeCommonPaths(crawl.url, live)]]
    /\ UNCHANGED <<plugin, server, cache, heap, calls, batch, live, clears>>

\* one crawl of a fresh DocsCrawler
CrawlInit ==
    /\ BaseInit
    /\ \* which common paths exist: none, /docs only, /docs/ and /api, all
       LET at(paths) == {UrlOrigin(crawlUrls.docs) \o commonPaths[k] : k \in paths}
       IN live \in {at({}), at({1}), at({2, 6}), at(1..Len(commonPaths))}

CrawlNext ==
    \/ \E url \in {crawlUrls.docs, crawlUrls.plain} : Crawl(url)
    \/ \E response \in
          {[kind |-> "neterr", page |-> NoPage], [kind |-> "non2xx", page |-> crawlPages.bare],
           [kind |-> "non2xx", page |-> crawlPages.twoLinks]}
          \cup {[kind |-> "ok", page |-> p] :
                  p \in {NoPage} \cup {crawlPages[f] : f \in DOMAIN crawlPages}} :
          PageArrives(response)
    \/ \E response \in
          {[kind |-> "neterr", locs |-> << >>], [kind |-> "non2xx", locs |-> << >>]}
          \cup {[kind |-> "ok", locs |-> locs] :
                  locs \in {<< >>,
                            <<sitemapLocs.a, sitemapLocs.f, sitemapLocs.g>>,
                            <<sitemapLocs.f, sitemapLocs.a, sitemapLocs.a_query,
                              sitemapLocs.blog, sitemapLocs.root>>,
                            <<sitemapLocs.blank, sitemapLocs.f, sitemapLocs.relative,
                              sitemapLocs.g>>,
                            <<sitemapLocs.blog>>}} :
          SitemapArrives(response)
    \/ ProbesResolve

CrawlSpec == CrawlInit /\ [][CrawlNext]_vars

----------------------------------------------------------------------------
(* Specifications.                                                         *)

\* the argument lists of discoverPackages
RECURSIVE SeqsUpTo(_, _)
SeqsUpTo(S, n) ==
    IF n = 0 THEN {<< >>}
    ELSE SeqsUpTo(S, n - 1)
         \cup {Append(s, x) : s \in {t \in SeqsUpTo(S, n - 1) : Len(t) = n - 1}, x \in S}

BatchInputs == SeqsUpTo(SomePackageNames, MaxBatchNames)

SomeLiveSets ==
    {{}, {GithubPagesUrl(ExtractGitHubUrl(RepositoryString(repositoryUrls.git_https)))}}

\* one scanner, concurrent discoverPackage and discoverPackages calls
Init ==
    /\ BaseInit
    /\ live \in SomeLiveSets

Next ==
    \/ \E c \in 1..MaxCalls, n \in SomePackageNames : Start(c, n)
    \/ \E c \in CallIds, r \in SomeRegistryResponses : RegistryResponse(c, r)
    \/ \E c \in CallIds : HttpResponse(c)
    \/ ClearCache
    \/ \E names \in BatchInputs :
          NextCallId + Len(names) - 1 <= MaxCalls /\ StartBatch(names)
    \/ BatchResolves
    \/ BatchRejects

Spec == Init /\ [][Next]_vars

\* one discoverPackage call on a fresh scanner, over every package name,
\* registry response and live set of the model
CascadeInit ==
    /\ BaseInit
    /\ live \in LiveSets(ProbeUrls(PackageNames, RegistryResponses))

CascadeNext ==
    \/ \E n \in PackageNames : Start(1, n)
    \/ \E r \in RegistryResponses : RegistryResponse(1, r)
    \/ HttpResponse(1)

CascadeSpec == CascadeInit /\ [][CascadeNext]_vars

\* one scanner, discoverPackage calls made one after another
SeqNext ==
    \/ \E c \in 1..MaxCalls, n \in SomePackageNames : StartAlone(c, n)
    \/ \E c \in CallIds, r \in SomeRegistryResponses : RegistryResponse(c, r)
    \/ \E c \in CallIds : HttpResponse(c)
    \/ ClearCache

SeqSpec == Init /\ [][SeqNext]_vars

\* an argument list of more than batchSize names: the first batch names two
\* packages several times, the later batches a third package
LongInputs ==
    LET LongList(n) ==
            [k \in 1..n |-> IF k > batchSize THEN npmNames.yup
                            ELSE IF k % 5 = 1 THEN npmNames.lodash ELSE npmNames.left_pad]
    IN {LongList(n) : n \in (batchSize + 1)..(batchSize + MaxBatchNames)}

\* the registry of the batch specification: it answers 404 for every name
\* but lodash, whose document has a repository url that is not a string
LongRegistryResponses(packageName) ==
    {[kind |-> "non2xx", data |-> NoData]}
    \cup (IF packageName = npmNames.lodash
          THEN {Packument(Undefined, RepositoryObject(NonString))} ELSE {})

\* one discoverPackages call with more names than one batch holds
BatchInit ==
    /\ BaseInit
    /\ live = {}

BatchNext ==
    \/ \E names \in LongInputs : StartBatch(names)
    \/ \E c \in CallIds :
          \E r \in LongRegistryResponses(calls[c].name) : RegistryResponse(c, r)
    \/ BatchResolves
    \/ BatchRejects

BatchSpec == BatchInit /\ [][BatchNext]_vars
----------------------------------------------------------------------------
(* DynamicPlugin: getCrawlResult and fetchDocs, from one await to the next. *)

\* getCrawlResult that calls crawl whenever no result is stored
GetCrawlResult_NoPromise(p, c) ==
    IF p.crawlResult # << >>
    THEN [plugin |-> p, crawl |-> c, via |-> "stored"]
    ELSE IF ~Truthy(p.docsUrl)
    THEN [plugin |-> p, crawl |-> c, via |-> "null"]
    ELSE [plugin |-> [p EXCEPT !.crawlPromise = <<"promise">>, !.crawls = p.crawls + 1],
          crawl  |-> BeginCrawl(p.docsUrl),
          via    |-> "promise"]

\* getCrawlResult up to its return or its await: the plugin and the crawl
\* afterwards, and where the value comes from: the stored crawlResult,
\* null, or the crawl promise that is awaited
GetCrawlResult(p, c) ==
    IF p.crawlResult # << >>
    THEN [plugin |-> p, crawl |-> c, via |-> "stored"]
    ELSE IF ~Truthy(p.docsUrl)
    THEN [plugin |-> p, crawl |-> c, via |-> "null"]
    ELSE IF p.crawlPromise = Null
    THEN [plugin |-> [p EXCEPT !.crawlPromise = <<"promise">>, !.crawls = p.crawls + 1],
          crawl  |-> BeginCrawl(p.docsUrl),
          via    |-> "promise"]
    ELSE [plugin |-> p, crawl |-> c, via |-> "promise"]

\* createDynamicPlugin(packageInfo)
CreatePlugin(docsUrl) ==
    /\ ~plugin.created
    /\ plugin' = NewPlugin(docsUrl)
    /\ UNCHANGED <<server, cache, heap, calls, batch, live, clears, crawl>>

\* fetchDocs(topic) is called and runs to its first await or to its return
FetchDocs(topic) ==
    /\ plugin.created
    /\ Len(plugin.fetches) < MaxFetches
    /\ LET \* a fetchDocs call: its topic, where it stands, where its
           \* getCrawlResult calls took their value from, the values they gave
           fetch(pc, vias) == [topic |-> topic,
                               pc    |-> pc,    \* awaitCrawl, awaitContent, awaitSections,
                                                \* awaitFallback, done
                               vias  |-> vias,
                               seen  |-> << >>]
           got == GetCrawlResult(plugin, crawl)
       IN IF ~Truthy(plugin.docsUrl)
          THEN /\ plugin' = [plugin EXCEPT !.fetches = Append(@, fetch("done", << >>))]
               /\ UNCHANGED crawl
          ELSE IF Truthy(topic)
          THEN /\ crawl' = got.crawl
               /\ plugin' = [got.plugin EXCEPT
                                !.fetches = Append(@, fetch("awaitCrawl", <<got.via>>))]
          ELSE /\ plugin' = [plugin EXCEPT
                                !.fetches = Append(@, fetch("awaitContent", << >>))]
               /\ UNCHANGED crawl
    /\ UNCHANGED <<server, cache, heap, calls, batch, live, clears>>

\* await this.getCrawlResult() of a fetchDocs call gives its value: at once
\* for a stored result, and when crawl has returned for the promise, whose
\* value is then stored in crawlResult
CrawlResultArrives(fetch) ==
    /\ fetch \in DOMAIN plugin.fetches
    /\ plugin.fetches[fetch].pc \in {"awaitCrawl", "awaitSections"}
    /\ LET f      == plugin.fetches[fetch]
           via    == f.vias[Len(f.vias)]
           stored == IF via = "promise"
                     THEN [plugin EXCEPT !.crawlResult = <<crawl.result>>]
                     ELSE plugin
       IN /\ via = "promise" => crawl.pc = "done"
          /\ plugin' = [stored EXCEPT
                           !.fetches[fetch] =
                               [f EXCEPT
                                  !.pc = IF f.pc = "awaitCrawl"
                                         THEN "awaitContent" ELSE "done",
                                  !.seen = Append(@, stored.crawlResult)]]
    /\ UNCHANGED <<server, cache, heap, calls, batch, live, clears, crawl>>

\* this.parser.extractContent(url) of a fetchDocs call resolves or rejects
ContentArrives(fetch, ok) ==
    /\ fetch \in DOMAIN plugin.fetches
    /\ plugin.fetches[fetch].pc = "awaitContent"
    /\ IF ok
       THEN LET got == GetCrawlResult(plugin, crawl)
            IN /\ crawl' = got.crawl
               /\ plugin' = [got.plugin EXCEPT
                                !.fetches[fetch].pc = "awaitSections",
                                !.fetches[fetch].vias = Append(@, got.via)]
       ELSE /\ plugin' = [plugin EXCEPT
                             !.fetches[fetch].pc =
                                 IF Truthy(plugin.fetches[fetch].topic)
                                 THEN "awaitFallback" ELSE "done"]
            /\ UNCHANGED crawl
    /\ UNCHANGED <<server, cache, heap, calls, batch, live, clears>>

\* extractContent(docsUrl) of the catch block resolves or rejects
FallbackArrives(fetch) ==
    /\ fetch \in DOMAIN plugin.fetches
    /\ plugin.fetches[fetch].pc = "awaitFallback"
    /\ plugin' = [plugin EXCEPT !.fetches[fetch].pc = "done"]
    /\ UNCHANGED <<server, cache, heap, calls, batch, live, clears, crawl>>

\* one DynamicPlugin, its fetchDocs calls and the crawl of its DocsCrawler
PluginNext ==
    \/ \E docsUrl \in {Null, crawlUrls.docs} : CreatePlugin(docsUrl)
    \/ \E topic \in {Undefined, navStrings.api} : FetchDocs(topic)
    \/ \E fetch \in 1..MaxFetches : CrawlResultArrives(fetch)
    \/ \E fetch \in 1..MaxFetches, ok \in BOOLEAN : ContentArrives(fetch, ok)
    \/ \E fetch \in 1..MaxFetches : FallbackArrives(fetch)
    \/ \E response \in {[kind |-> "neterr", page |-> NoPage],
                        [kind |-> "ok", page |-> crawlPages.bare],
                        [kind |-> "ok", page |-> crawlPages.twoLinks]} :
          PageArrives(response)
    \/ \E response \in {[kind |-> "non2xx", locs |-> << >>],
                        [kind |-> "ok", locs |-> <<sitemapLocs.f>>]} :
          SitemapArrives(response)
    \/ ProbesResolve

PluginSpec == CrawlInit /\ [][PluginNext]_vars

----------------------------------------------------------------------------
(* ProjectDocsServer: loadProjectInfo and the request handlers, from one   *)
(* await to the next.                                                      *)

\* requests in one behaviour
MaxRequests == 2

\* string literals of the server
serverStrings ==
    [\* "vue"
     vue |-> <<"v","u","e">>,
     \* "@vue/runtime-core"
     vue_runtime |-> <<"@","v","u","e","/","r","u","n","t","i","m","e","-","c","o","r","e">>,
     \* "@vue/compiler-sfc"
     vue_sfc |-> <<"@","v","u","e","/","c","o","m","p","i","l","e","r","-","s","f","c">>,
     \* "typescript"
     typescript |-> <<"t","y","p","e","s","c","r","i","p","t">>,
     \* "@types/node"
     types_node |-> <<"@","t","y","p","e","s","/","n","o","d","e">>,
     \* "@types/"
     types |-> <<"@","t","y","p","e","s","/">>,
     \* "eslint-config"
     eslint_config |-> <<"e","s","l","i","n","t","-","c","o","n","f","i","g">>,
     \* "eslint-plugin"
     eslint_plugin |-> <<"e","s","l","i","n","t","-","p","l","u","g","i","n">>,
     \* "custom"
     custom |-> <<"c","u","s","t","o","m">>]

\* shouldSkipPackage(packageName), with the SKIP_PACKAGES entries of the model
shouldSkipPackage(packageName) ==
    LET SKIP_PACKAGES == {serverStrings.types_node, serverStrings.typescript}
    IN \/ packageName \in SKIP_PACKAGES
       \/ StartsWith(packageName, serverStrings.types)
       \/ Includes(packageName, serverStrings.eslint_config)
       \/ Includes(packageName, serverStrings.eslint_plugin)

\* createDynamicPlugin(discovered): an element of activePlugins that is the
\* DynamicPlugin of a package; a built-in plugin has dynamic = FALSE
createDynamicPlugin(discovered) ==
    [dynamic |-> TRUE, name |-> discovered.name, docsUrl |-> discovered.docsUrl]

\* createDiscoveredPackageFromConfig(pkg)
createDiscoveredPackageFromConfig(pkg) ==
    [NewResult(pkg.name) EXCEPT !.version = serverStrings.custom,
                                !.docsUrl = pkg.docsUrl,
                                !.confidence = "high"]

\* a request whose handler is past ensureProjectLoaded: what it finds in
\* activePlugins and the loadProjectInfo calls that have not returned
Proceed(s, request) ==
    [s EXCEPT !.requests[request] =
        [pc      |-> "handled",
         plugins |-> s.activePlugins,
         pending |-> {l \in DOMAIN s.loads : s.loads[l].pc \notin {"done", "threw"}}]]

\* loadProjectInfo of a load returns, or throws, and the handler awaiting it
\* goes on, or throws as well
Settled(s, load, ok) ==
    IF ok
    THEN Proceed([s EXCEPT !.loads[load].pc = "done"], s.loads[load].request)
    ELSE [s EXCEPT !.loads[load].pc = "threw",
                   !.requests[s.loads[load].request].pc = "threw"]

\* new ProjectDocsServer()
Construct(autoDiscovery) ==
    /\ ~server.created
    /\ server' = [server EXCEPT !.created = TRUE, !.autoDiscoveryEnabled = autoDiscovery]
    /\ UNCHANGED <<plugin, crawl, cache, heap, calls, batch, live, clears>>

\* a request arrives and its handler runs ensureProjectLoaded
Request ==
    /\ server.created
    /\ Len(server.requests) < MaxRequests
    /\ LET request == Len(server.requests) + 1
           arrived == [server EXCEPT
                          !.requests = Append(@, [pc |-> "awaitLoad", plugins |-> << >>,
                                                  pending |-> {}])]
       IN server' = IF server.projectInfo = << >>
                    THEN [arrived EXCEPT
                            !.loads = Append(@, [pc           |-> "readFile",
                                                 request      |-> request,
                                                 dependencies |-> << >>,
                                                 children     |-> << >>])]
                    ELSE Proceed(arrived, request)
    /\ UNCHANGED <<plugin, crawl, cache, heap, calls, batch, live, clears>>

\* fs.readFile of package.json resolves with these dependencies, or rejects
PackageJsonArrives(load, ok, dependencies) ==
    /\ load \in DOMAIN server.loads
    /\ server.loads[load].pc = "readFile"
    /\ server' =
         IF ok
         THEN LET has(name) == \E k \in DOMAIN dependencies : dependencies[k] = name
                  \* builtInPlugins of the model: VuePlugin
                  detected  == has(serverStrings.vue) \/ has(serverStrings.vue_runtime)
              IN [server EXCEPT
                    !.projectInfo = <<[dependencies |-> dependencies]>>,
                    !.activePlugins =
                        IF detected
                        THEN <<[dynamic |-> FALSE, name |-> serverStrings.vue,
                                docsUrl |-> Null]>>
                        ELSE << >>,
                    !.builtInPackages =
                        IF detected
                        THEN {n \in {serverStrings.vue, serverStrings.vue_sfc} : has(n)}
                        ELSE {},
                    !.loads[load].pc = "customConfig",
                    !.loads[load].dependencies = dependencies]
         ELSE Settled(server, load, FALSE)
    /\ UNCHANGED <<plugin, crawl, cache, heap, calls, batch, live, clears>>

\* loadCustomDocsConfig resolves with the packages of the config: the custom
\* plugins are pushed and discoverAdditionalPlugins runs to its await
CustomConfigArrives(load, packages) ==
    /\ load \in DOMAIN server.loads
    /\ server.loads[load].pc = "customConfig"
    /\ LET pushed == [server EXCEPT
                         !.activePlugins = @ \o
                             [k \in DOMAIN packages |->
                                 createDynamicPlugin(
                                     createDiscoveredPackageFromConfig(packages[k]))]]
           \* packagesToDiscover of discoverAdditionalPlugins
           names  == SelectSeq(server.loads[load].dependencies,
                               LAMBDA pkg : /\ pkg \notin server.builtInPackages
                                            /\ ~shouldSkipPackage(pkg))
           first  == Len(calls) + 1
           ids    == [k \in DOMAIN names |-> first + k - 1]
       IN IF server.autoDiscoveryEnabled /\ names # << >>
          THEN /\ server' = [pushed EXCEPT !.loads[load].pc = "discovery",
                                           !.loads[load].children = ids]
               /\ calls' = calls \o [k \in DOMAIN names |-> BeginCall(ids[k], names[k])]
               /\ heap' = [c \in DOMAIN heap \cup {ids[k] : k \in {j \in DOMAIN names :
                                                       ~CacheHas(names[j])}} |->
                              IF c \in DOMAIN heap THEN heap[c]
                              ELSE ApplyOverride(NewResult(names[c - first + 1]))]
          ELSE /\ server' = Settled(pushed, load, TRUE)
               /\ UNCHANGED <<calls, heap>>
    /\ UNCHANGED <<plugin, crawl, cache, batch, live, clears>>

\* await this.packageScanner.discoverPackages(...) of a load settles: it
\* resolves when all its calls returned, and the plugins of the discoveries
\* are pushed; it rejects when one of them threw, and loadProjectInfo throws
DiscoveriesArrive(load) ==
    /\ load \in DOMAIN server.loads
    /\ server.loads[load].pc = "discovery"
    /\ LET children    == server.loads[load].children
           discoveries == [k \in DOMAIN children |-> heap[calls[children[k]].ret]]
           \* only packages with high or medium confidence docs get a plugin
           documented  == SelectSeq(discoveries,
                                    LAMBDA d : Truthy(d.docsUrl) /\ d.confidence # "low")
           plugins     == [k \in DOMAIN documented |-> createDynamicPlugin(documented[k])]
       IN /\ \/ \A k \in DOMAIN children : calls[children[k]].pc = "done"
             \/ \E k \in DOMAIN children : calls[children[k]].pc = "threw"
          /\ server' =
               IF \E k \in DOMAIN children : calls[children[k]].pc = "threw"
               THEN Settled(server, load, FALSE)
               ELSE Settled([server EXCEPT !.activePlugins = @ \o plugins], load, TRUE)
    /\ UNCHANGED <<plugin, crawl, cache, heap, calls, batch, live, clears>>

\* one server and its requests; the projects of the model are the keys of
\* allDependencies, the custom configs name no package, a package that is
\* no dependency, or a dependency
ServerNext ==
    \/ \E autoDiscovery \in BOOLEAN : Construct(autoDiscovery)
    \/ Request
    \/ \E load \in DOMAIN server.loads, ok \in BOOLEAN :
          \E dependencies \in
                {<<serverStrings.vue, npmNames.left_pad, serverStrings.typescript>>,
                 <<serverStrings.vue, serverStrings.types_node>>} :
             PackageJsonArrives(load, ok, dependencies)
    \/ \E load \in DOMAIN server.loads :
          \E packages \in
                {<< >>,
                 <<[name |-> npmNames.yup, docsUrl |-> overrideUrls.yup]>>,
                 <<[name |-> npmNames.left_pad, docsUrl |-> homepageUrls.plain]>>} :
             CustomConfigArrives(load, packages)
    \/ \E load \in DOMAIN server.loads : DiscoveriesArrive(load)
    \/ \E c \in CallIds :
          \E response \in {[kind |-> "non2xx", data |-> NoData],
                            Packument(homepageUrls.dev, NoRepository),
                            Packument(Undefined, NoRepository),
                            Packument(Undefined, RepositoryObject(NonString))} :
             RegistryResponse(c, response)
    \/ \E c \in CallIds : HttpResponse(c)

ServerSpec == BatchInit /\ [][ServerNext]_vars


----------------------------------------------------------------------------
(* Properties.                                                             *)

\* the calls that have returned a record
Returned == {c \in CallIds : calls[c].pc = "done"}

\* the calls that ran the discovery themselves
Discovered == {c \in CallIds : ~calls[c].hit}

\* the record call c returned
Record(c) == heap[calls[c].ret]

\* the elements of a sequence
Elements(s) == {s[i] : i \in 1..Len(s)}

\* the metadata has the types NpmPackageMetadata declares: the homepage and
\* the repository url are strings where they are present
WellTyped(metadata) ==
    \/ metadata.isNull
    \/ /\ metadata.homepage # NonString
       /\ metadata.repository.url # NonString

\* the calls that have ended, with a record or with an exception
Ended == {c \in CallIds : calls[c].pc \in {"done", "threw"}}

\* C1: every record discoverPackage returns has a non-null docsUrl, whatever
\* the registry and the probes answered.
C1_DocsUrlNeverNull ==
    \A c \in Returned : Record(c).docsUrl # Null

C3_RegistryFailureFallsBackToNpm ==
    \A c \in Discovered :
        /\ calls[c].pc \in {"done", "threw"}
        /\ calls[c].metadata.isNull
        /\ calls[c].name \notin DOMAIN KNOWN_DOCS_OVERRIDES
        => /\ calls[c].pc = "done"
           /\ Record(c).confidence = "low"
           /\ Record(c).docsUrl = Record(c).npmUrl

\* C4: with calls made one after another, a later call for the same name
\* returns the identical object when no clearCache() came between the two,
\* and after a clearCache() a distinct object, whose docsUrl is the earlier
\* one when the registry answered both discoveries alike.
C4_CacheIdentity ==
    \A c \in Returned, d \in Returned :
        c < d /\ calls[c].name = calls[d].name
        => /\ calls[c].endClear = calls[d].startClear
              => calls[d].ret = calls[c].ret
           /\ calls[c].endClear < calls[d].startClear
              => /\ calls[d].ret # calls[c].ret
                 /\ calls[calls[c].ret].response = calls[calls[d].ret].response
                    => Record(d).docsUrl = Record(c).docsUrl

\* a name discovered, the cache cleared, the name discovered again with the
\* registry answering alike
C4_Witness ==
    \E c \in Returned, d \in Returned :
        /\ c < d /\ calls[c].name = calls[d].name
        /\ calls[c].endClear < calls[d].startClear
        /\ calls[c].response.kind = "ok"
        /\ calls[c].response = calls[d].response
        /\ Len(calls[d].reqs) > 1

\* C5: no exception escapes discoverPackage, whatever the registry fetch,
\* the probes and the homepage fetch answer.
C5_NoExceptionEscapes ==
    \A c \in CallIds : calls[c].pc # "threw"

\* the place of a tier in the cascade
TierRank(tier) ==
    CASE tier = "homepage"     -> 1
      [] tier = "organization" -> 2
      [] tier = "generic"      -> 3
      [] tier = "analysis"     -> 4
      [] tier = "github"       -> 5
      [] tier = "npm"          -> 6

\* C6: the tiers of one run are consulted in the order homepage,
\* organization, generic, content analysis, GitHub, registry page; docsUrl is
\* assigned at most once, by the last tier consulted, and once it is
\* assigned no probe or fetch is pending or issued.
C6_FirstAcceptableWins ==
    \A c \in Discovered :
        LET tiers    == calls[c].tiers
            assigned == calls[c].assigned
        IN /\ \A i \in 1..Len(tiers), j \in 1..Len(tiers) :
                i < j => TierRank(tiers[i]) < TierRank(tiers[j])
           /\ Len(assigned) <= 1
           /\ assigned = <<"override">> => tiers = << >>
           /\ assigned # << >> /\ assigned # <<"override">>
              => /\ tiers # << >>
                 /\ tiers[Len(tiers)] = assigned[1]
                 /\ calls[c].pc = "done"
                 /\ assigned[1] = "homepage" => Len(calls[c].reqs) = 1

\* the organization tier accepted its candidate although the generic
\* candidates and the GitHub fallback were available too
C6_Witness ==
    \E c \in Returned :
        /\ calls[c].assigned = <<"organization">>
        /\ Record(c).githubUrl # Null
        /\ UrlsOf(CommonCandidates(calls[c].name, calls[c].metadata.homepage,
                                   Record(c).githubUrl)) \subseteq live
        /\ calls[c].idx = 2

HomepageHost(homepage) ==
    LET l    == ToLowerCase(homepage)
        bare == ReplacePrefix(ReplacePrefix(ReplacePrefix(l, scanStrings.https, <<>>),
                                            scanStrings.http, <<>>), scanStrings.www, <<>>)
        ends == {i \in 1..Len(bare) : bare[i] \in {"/", "?", "#"}}
    IN SubSeq(bare, 1, IF ends = {} THEN Len(bare)
                       ELSE (CHOOSE i \in ends : \A j \in ends : i <= j) - 1)

\* the homepage is on a repository host: github.com, gitlab.com or npmjs.com
OnRepositoryHost(homepage) ==
    \E host \in {homepageStrings.github_com, homepageStrings.gitlab_com, homepageStrings.npmjs_com} :
        \/ HomepageHost(homepage) = host
        \/ EndsWith(HomepageHost(homepage), <<".">> \o host)

\* C8: a homepage on github.com (not a *.github.io site), gitlab.com or
\* npmjs.com is never made the docsUrl by the homepage tier.
C8_RepositoryHomepageRejected ==
    \A c \in Discovered :
        /\ ~calls[c].metadata.isNull
        /\ IsString(calls[c].metadata.homepage)
        /\ OnRepositoryHost(calls[c].metadata.homepage)
        => "homepage" \notin Elements(calls[c].assigned)

\* the homepage reads as documentation: a keyword, .dev, .io, or a GitHub
\* Pages host
LooksLikeDocs(homepage) ==
    \/ \E word \in {homepageStrings.docs, homepageStrings.documentation, homepageStrings.guide, homepageStrings.dev, homepageStrings.io} :
          Includes(ToLowerCase(homepage), word)
    \/ EndsWith(HomepageHost(homepage), homepageStrings.github_io)

\* C9: for a package without an override whose homepage is not on a
\* repository host, the homepage becomes docsUrl, with confidence 'high'
\* when it reads as documentation and 'medium' otherwise.
C9_HomepageAccepted ==
    \A c \in Ended \cap Discovered :
        /\ ~calls[c].metadata.isNull
        /\ WellTyped(calls[c].metadata)
        /\ calls[c].name \notin DOMAIN KNOWN_DOCS_OVERRIDES
        /\ Truthy(calls[c].metadata.homepage)
        /\ ~OnRepositoryHost(calls[c].metadata.homepage)
        => /\ calls[c].pc = "done"
           /\ Record(c).docsUrl = calls[c].metadata.homepage
           /\ calls[c].assigned = <<"homepage">>
           /\ Record(c).confidence =
                 IF LooksLikeDocs(calls[c].metadata.homepage) THEN "high" ELSE "medium"

\* a GitHub Pages homepage accepted directly, with confidence 'high'
C9_Witness ==
    \E c \in Returned :
        /\ calls[c].metadata.homepage = homepageUrls.pages
        /\ Record(c).docsUrl = homepageUrls.pages
        /\ Record(c).confidence = "high"
        /\ calls[c].name = npmNames.foo_bar

\* C10: discoverPackages returns a map whose keys are exactly the input
\* names, each mapped to the record its discovery returned.
C10_BatchReturnsEveryName ==
    batch.status \in {"done", "threw"}
    => /\ batch.status = "done"
       /\ DOMAIN batch.results = Elements(batch.names)
       /\ \A k \in 1..Len(batch.names) :
             \E j \in k..Len(batch.names) :
                /\ batch.names[j] = batch.names[k]
                /\ batch.results[batch.names[k]] = calls[batch.children[j]].ret

\* C11: a docsUrl that a discovery returns was the target of an existence
\* check of that discovery, and the check succeeded.
C11_DocsUrlVerified ==
    \A c \in Returned \cap Discovered :
        Record(c).docsUrl # Null
        => /\ HeadRequest(Record(c).docsUrl) \in Elements(calls[c].reqs)
           /\ Record(c).docsUrl \in live

\* the place of a confidence in the order low < medium < high
ConfidenceRank(confidence) ==
    CASE confidence = "low"    -> 1
      [] confidence = "medium" -> 2
      [] confidence = "high"   -> 3

\* C12: within one run the values assigned to the result's confidence never
\* go down: no 'medium' or 'low' after 'high', no 'low' after 'medium'.
C12_ConfidenceNeverDowngraded ==
    \A c \in Discovered :
        \A i \in 1..Len(calls[c].confs), j \in 1..Len(calls[c].confs) :
            i < j => ConfidenceRank(calls[c].confs[i])
                     <= ConfidenceRank(calls[c].confs[j])

\* a run that went through the probing tiers with a confidence above 'low'
\* assigned on the way
C12_Witness ==
    \E c \in Returned \cap Discovered :
        /\ Len(calls[c].confs) = 2
        /\ calls[c].confs[2] = "high"
        /\ Len(calls[c].reqs) > 2
        /\ "generic" \in Elements(calls[c].tiers)

\* C13: between two clearCache() calls the cache entry of a package name is
\* written at most once, in every interleaving of the calls.  A discovery
\* writes the entry of its name once, when it returns.
C13_CacheWrittenOnce ==
    \A c \in Returned \cap Discovered, d \in Returned \cap Discovered :
        c # d /\ calls[c].name = calls[d].name
        => calls[c].endClear # calls[d].endClear

\* the call that built the record call c returned
Builder(c) == calls[c].ret

\* C14: the first discoverPackage(name) call started after a clearCache()
\* runs the discovery again: the record it returns was built by a discovery
\* that began after that clearCache(), also when a discovery of the name
\* was in flight at the moment of the clear.
C14_ClearForcesRediscovery ==
    \A d \in Returned :
        /\ calls[d].startClear > 0
        /\ \A e \in CallIds : e < d => calls[e].startClear < calls[d].startClear
        => calls[Builder(d)].startClear = calls[d].startClear

InFlight == {c \in CallIds : calls[c].pc \in {"awaitMeta", "probe", "awaitHomepage"}}

\* the batch of the discoverPackages call that call c belongs to, when the
\* calls are the children of that call, numbered in list order
BatchOf(c) == (c - 1) \div batchSize

\* C15: during one discoverPackages call at most 10 discoveries are in flight
\* at any moment, and no discovery of a batch has started while a discovery
\* of an earlier batch has not completed.
C15_BatchesBounded ==
    /\ Cardinality(InFlight) <= 10
    /\ \A c \in CallIds, d \in CallIds :
          BatchOf(c) < BatchOf(d) => calls[c].pc \in {"done", "threw"}

\* the second batch in flight after the ten discoveries of the first
C15_Witness ==
    /\ batch.status = "running"
    /\ batch.i = 10
    /\ Len(batch.names) > 10
    /\ 11 \in CallIds
    /\ calls[11].pc = "awaitMeta"
    /\ \A c \in 1..10 : calls[c].pc = "done"

\* C17: when the page fetch of crawl(url) fails (network error or a status
\* that is not 2xx) crawl returns, with baseUrl = url, isValidDocs = false,
\* no sections, navigationFound = false and sitemapFound = false, and has
\* issued no request but the page fetch.
C17_PageFailureReturnsEmpty ==
    crawl.response.kind \in {"neterr", "non2xx"}
    => /\ crawl.pc = "done"
       /\ crawl.result.baseUrl = crawl.url
       /\ crawl.result.isValidDocs = FALSE
       /\ crawl.result.sections = << >>
       /\ crawl.result.navigationFound = FALSE
       /\ crawl.result.sitemapFound = FALSE
       /\ crawl.reqs = <<PageRequest(crawl.url)>>

\* the page fetch answered 404 with an error page that has a sidebar
C17_Witness ==
    /\ crawl.pc = "done"
    /\ crawl.response.kind = "non2xx"
    /\ crawl.response.page.navs # << >>
    /\ crawl.url = crawlUrls.docs

\* the paths of a sequence of sections
PathsOf(sections) == {sections[i].path : i \in 1..Len(sections)}

\* C18: no two sections of a CrawlResult have the same path, and when the
\* sections come from navigation and sitemap their number is the number of
\* distinct paths among the navigation and sitemap entries.
C18_SectionsDistinctPaths ==
    crawl.pc = "done"
    => /\ \A i \in 1..Len(crawl.result.sections),
             j \in 1..Len(crawl.result.sections) :
             i # j => crawl.result.sections[i].path # crawl.result.sections[j].path
       /\ crawl.navSections # << >> \/ crawl.sitemapSections # << >>
          => Len(crawl.result.sections)
             = Cardinality(PathsOf(crawl.navSections)
                           \cup PathsOf(crawl.sitemapSections))

SidebarCrawl ==
    /\ crawl.pc = "done"
    /\ crawl.response.kind = "ok"
    /\ Len(crawl.response.page.navs) = 1
    /\ crawl.sitemapSections = << >>
    /\ LET links == crawl.response.page.navs[1].links
       IN \A i \in 1..Len(links), j \in 1..Len(links) :
             i # j => links[i].href # links[j].href

\* a link is external: an http(s) URL of another origin
ExternalLink(href) ==
    /\ StartsWith(href, scanStrings.http) \/ StartsWith(href, scanStrings.https)
    /\ ~StartsWith(href, UrlOrigin(crawl.url))

\* a link is an anchor of the page
AnchorLink(href) == href # << >> /\ href[1] = "#"

LinkPath(href) ==
    LET cuts == {i \in 1..Len(href) : href[i] \in {"#", "?"}}
        bare == IF cuts = {} THEN href
                ELSE SubSeq(href, 1, (CHOOSE i \in cuts : \A j \in cuts : i <= j) - 1)
    IN IF bare # << >> /\ bare[1] = "/" THEN bare ELSE <<"/">> \o bare

\* the link has a text of at most 100 characters and an href that is not
\* external, an anchor, a mailto: or a javascript: link
TitledInternalLink(link) ==
    /\ link.href # << >>
    /\ Trim(link.text) # << >>
    /\ Len(Trim(link.text)) <= 100
    /\ ~ExternalLink(link.href)
    /\ ~AnchorLink(link.href)
    /\ \A scheme \in {navStrings.mailto, navStrings.javascript} :
          ~StartsWith(link.href, scheme)

\* the path reads as documentation or is at least two levels deep
DocLikePath(path) ==
    \/ \E word \in {navStrings.doc, navStrings.guide, navStrings.api} :
          Includes(path, word)
    \/ \E k \in 1..Len(DOC_PATH_PATTERNS) :
          StartsWith(ToLowerCase(path), DOC_PATH_PATTERNS[k])
    \/ Cardinality({i \in 1..Len(path) :
                       path[i] # "/" /\ (i = 1 \/ path[i - 1] = "/")}) >= 2

Probed == \E i \in 1..Len(crawl.reqs) : crawl.reqs[i][1] = "HEAD"

C22_OverrideSkipsTiers ==
    \A c \in Discovered :
        calls[c].name \in DOMAIN KNOWN_DOCS_OVERRIDES
        => /\ calls[c].tiers = << >>
           /\ calls[c].assigned = <<"override">>
           /\ calls[c].reqs = <<RegistryRequest(calls[c].name)>>
           /\ calls[c].pc = "done" /\ ~calls[c].metadata.isNull
              => /\ Record(c).version = calls[c].metadata.version
                 /\ Record(c).description = calls[c].metadata.description
                 /\ Record(c).keywords = calls[c].metadata.keywords
                 /\ Record(c).githubUrl = ExtractGitHubUrl(calls[c].metadata.repository)
                 /\ Record(c).docsUrl = KNOWN_DOCS_OVERRIDES[calls[c].name]

\* an override package with scoped name returned after a metadata fetch that
\* carried a version, keywords, a repository on GitHub and a GitHub Pages
\* homepage
C22_Witness ==
    \E c \in Returned :
        /\ calls[c].name = npmNames.trpc_server
        /\ calls[c].metadata.homepage = homepageUrls.pages
        /\ Record(c).version = metadataValues.version
        /\ Record(c).keywords = metadataValues.keywords
        /\ Record(c).githubUrl = gitUrlStrings.https_github_com_slash \o <<"o", "/", "r">>

\* C23: when the homepage exists and is not on a repository host and
\* neither the homepage tier nor a probing tier supplied docsUrl, the
\* discovery fetches the homepage for the content analysis, and a docsUrl
\* the analysis supplies has confidence 'high'.
C23_AnalysisRuns ==
    \A c \in Returned \cap Discovered :
        /\ ~calls[c].metadata.isNull
        /\ calls[c].name \notin DOMAIN KNOWN_DOCS_OVERRIDES
        /\ IsString(calls[c].metadata.homepage)
        /\ Truthy(calls[c].metadata.homepage)
        /\ ~OnRepositoryHost(calls[c].metadata.homepage)
        /\ Elements(calls[c].assigned) \cap {"homepage", "organization", "generic"} = {}
        => /\ "analysis" \in Elements(calls[c].tiers)
           /\ PageRequest(calls[c].metadata.homepage) \in Elements(calls[c].reqs)
           /\ "analysis" \in Elements(calls[c].assigned)
              => Record(c).confidence = "high"

\* the tiers of the cascade
Tiers == {"override", "homepage", "organization", "generic", "analysis",
          "github", "npm"}

\* C27: for each tier of the cascade there are a package name, registry
\* metadata and network responses for which discoverPackage, called with an
\* empty cache, returns the docsUrl that tier produced.
C27_EveryTierReachable ==
    LET liveSets == LiveSets(ProbeUrls(PackageNames, RegistryResponses))
    IN cache = << >> =>
       \A tier \in Tiers :
          \E packageName \in PackageNames,
             response \in {r \in RegistryResponses : r.kind = "ok"},
             alive \in liveSets :
             \E step \in Discover(packageName, response, alive) :
                /\ step.call.pc = "done"
                /\ step.call.assigned # << >>
                /\ step.call.assigned[Len(step.call.assigned)] = tier

\* the URLs of the HEAD requests call c has issued, in order
Probes(c) ==
    LET heads == SelectSeq(calls[c].reqs, LAMBDA req : req[1] = "HEAD")
    IN [k \in 1..Len(heads) |-> heads[k][2]]

\* the generic candidates are in the order docs subdomain, /docs,
\* /documentation, /guide, GitHub Pages, ReadTheDocs, the first two with
\* confidence 'high' and the others with 'medium'
GenericOrder(generic, homepage, githubUrl) ==
    LET h == IF Truthy(homepage) /\ UrlParses(homepage) THEN 4 ELSE 0
        g == IF Truthy(githubUrl) THEN 1 ELSE 0
    IN /\ Len(generic) = h + g + 1
       /\ h = 4 => /\ StartsWith(generic[1].url, docsUrlPatterns.https_docs_dot)
                   /\ EndsWith(generic[2].url, docsUrlPatterns.slash_docs)
                   /\ EndsWith(generic[3].url, docsUrlPatterns.slash_documentation)
                   /\ EndsWith(generic[4].url, docsUrlPatterns.slash_guide)
       /\ g = 1 => Includes(generic[h + 1].url, homepageStrings.github_io)
       /\ EndsWith(generic[h + g + 1].url, docsUrlPatterns.readthedocs_io)
       /\ \A k \in 1..Len(generic) :
             generic[k].confidence = IF h = 4 /\ k <= 2 THEN "high" ELSE "medium"

\* C24: a probing tier requests its candidates one at a time in list order,
\* a later candidate only after every earlier one failed, and the generic
\* tier only after every organization candidate failed; the first candidate
\* that answers is returned with its confidence ('high' for the docs
\* subdomain and /docs, 'medium' for the other generic candidates), and
\* when none answers every candidate was requested and the tier supplies
\* nothing.
C24_ProbesInOrder ==
    \A c \in Discovered :
        /\ ~calls[c].metadata.isNull
        /\ calls[c].name \notin DOMAIN KNOWN_DOCS_OVERRIDES
        /\ calls[c].pc # "threw"
        => LET result  == heap[calls[c].obj]
               org     == IF "organization" \in Elements(calls[c].tiers)
                          THEN OrgCandidates(calls[c].name) ELSE << >>
               generic == IF "generic" \in Elements(calls[c].tiers)
                          THEN CommonCandidates(calls[c].name, calls[c].metadata.homepage,
                                                result.githubUrl)
                          ELSE << >>
               all     == org \o generic
               probes  == Probes(c)
               n       == Len(probes)
           IN /\ "generic" \in Elements(calls[c].tiers)
                 => GenericOrder(generic, calls[c].metadata.homepage, result.githubUrl)
              /\ n <= Len(all)
              /\ \A k \in 1..n : probes[k] = all[k].url
              /\ \A k \in 1..(n - 1) : probes[k] \notin live
              /\ calls[c].pc = "probe" <=> (n > 0 /\ result.docsUrl = Null)
              /\ calls[c].pc = "done" /\ n > 0 /\ probes[n] \in live
                 => /\ result.docsUrl = all[n].url
                    /\ result.confidence = all[n].confidence
              /\ calls[c].pc = "done" /\ (n = 0 \/ probes[n] \notin live)
                 => /\ n = Len(all)
                    /\ Elements(calls[c].assigned) \cap {"organization", "generic"} = {}

\* the docs subdomain and /docs failed and /documentation answered
C24_Witness ==
    \E c \in Returned :
        /\ Len(Probes(c)) = 3
        /\ EndsWith(Probes(c)[3], docsUrlPatterns.slash_documentation)
        /\ Record(c).docsUrl = Probes(c)[3]
        /\ Record(c).confidence = "medium"
        /\ Len(calls[c].cands) > 3

\* the paths of the links of a navigation element that become sections
KeptPaths(links) ==
    {path \in {LinkPath(links[i].href) :
                  i \in {k \in 1..Len(links) : TitledInternalLink(links[k])}} :
        DocLikePath(path)}

\* the page of the crawl was fetched and its navigation extracted
Extracted == crawl.response.kind = "ok" /\ crawl.pc # "awaitPage"

\* C25, as stated: the navigation sections are the kept links of the
\* element of the first selector that matches an element of the page.
C25_Original ==
    Extracted /\ crawl.response.page.navs # << >>
    => PathsOf(crawl.navSections) = KeptPaths(crawl.response.page.navs[1].links)

\* C25, amended: the navigation sections are the kept links of the element
\* of the first matching selector that has a kept link, one section for each
\* path with the text of a link of that element; the selectors after it
\* contribute nothing, and there is no section when no element has a kept
\* link.
C25_FirstSelectorWithSections ==
    Extracted
    => LET navs   == crawl.response.page.navs
           having == {k \in 1..Len(navs) : KeptPaths(navs[k].links) # {}}
       IN /\ having = {} => crawl.navSections = << >>
          /\ having # {}
             => LET first == CHOOSE k \in having : \A j \in having : k <= j
                    links == navs[first].links
                IN /\ PathsOf(crawl.navSections) = KeptPaths(links)
                   /\ Len(crawl.navSections) = Cardinality(KeptPaths(links))
                   /\ \A i \in 1..Len(crawl.navSections) :
                         \E k \in 1..Len(links) :
                            /\ LinkPath(links[k].href) = crawl.navSections[i].path
                            /\ Trim(links[k].text) = crawl.navSections[i].title

\* two selectors match and both elements have kept links: the sections are
\* those of the first
C25_Witness ==
    /\ Extracted
    /\ crawl.response.page = crawlPages.bothSelectors
    /\ Len(crawl.navSections) = 1
    /\ crawl.navSections[1].title = navTitles.a
    /\ crawl.pc = "done"

\* C28: in a returned record confidence is 'high' or 'medium' if and only if
\* docsUrl is not null and differs from npmUrl, and confidence is 'low'
\* exactly when no tier but the registry-page fallback supplied docsUrl.
C28_ConfidenceMatchesSource ==
    \A c \in Returned :
        /\ Record(c).confidence \in {"high", "medium", "low"}
        /\ Record(c).confidence \in {"high", "medium"}
           <=> (Record(c).docsUrl # Null /\ Record(c).docsUrl # Record(c).npmUrl)
        /\ Record(c).confidence = "low"
           <=> Elements(calls[c].assigned) \subseteq {"npm"}

\* a record of the GitHub fallback: confidence 'medium' and docsUrl the
\* repository page
C28_Witness ==
    \E c \in Returned :
        /\ calls[c].assigned = <<"github">>
        /\ Record(c).confidence = "medium"
        /\ Record(c).docsUrl = Record(c).githubUrl
        /\ Record(c).docsUrl # Record(c).npmUrl
        /\ Len(calls[c].reqs) > 1

\* the cache entry of a name, or a value that is no entry
EntryOf(entries, packageName) ==
    IF packageName \in DOMAIN entries THEN <<entries[packageName]>> ELSE << >>

\* C29: a call that finds its name in the cache issues no request and
\* returns at once, the step that starts it leaves the cache unchanged, and
\* the cache entry of a name changes only by clearCache() or by the return
\* of a discovery of that very name.
C29_CacheFrame ==
    [][/\ \A c \in DOMAIN calls' :
             calls'[c].hit
             => /\ calls'[c].reqs = << >>
                /\ calls'[c].pc = "done"
                /\ c \notin DOMAIN calls => cache' = cache
       /\ \A packageName \in DOMAIN cache \cup DOMAIN cache' :
             EntryOf(cache', packageName) # EntryOf(cache, packageName)
             => \/ clears' # clears /\ cache' = << >>
                \/ \E c \in DOMAIN calls :
                      /\ calls[c].name = packageName
                      /\ ~calls[c].hit
                      /\ calls[c].pc # "done"
                      /\ calls'[c].pc = "done"]_vars

\* a discovery returned and a later call for the same name found the entry:
\* it issued no request and the cache holds what the discovery wrote
C29_Witness ==
    \E c \in Returned, d \in Returned :
        /\ ~calls[c].hit
        /\ calls[d].hit
        /\ calls[d].name = calls[c].name
        /\ calls[d].reqs = << >>
        /\ cache = (calls[c].name :> calls[c].ret)
        /\ calls[d].ret = calls[c].ret

\* C26: a DynamicPlugin calls DocsCrawler.crawl at most once, however its
\* fetchDocs calls overlap or follow each other: a getCrawlResult call that
\* finds no stored result awaits the one crawl promise, every value that
\* getCrawlResult gives is the result of that one crawl of docsUrl, and the
\* stored crawlResult is that result.
C26_CrawlAtMostOnce ==
    /\ plugin.crawls <= 1
    /\ plugin.crawls = 1 <=> crawl.pc # "idle"
    /\ plugin.crawls = 1 => crawl.url = plugin.docsUrl
    /\ plugin.crawlResult # << >>
       => crawl.pc = "done" /\ plugin.crawlResult = <<crawl.result>>
    /\ \A fetch \in DOMAIN plugin.fetches :
          LET f == plugin.fetches[fetch]
          IN /\ \A k \in DOMAIN f.vias :
                   /\ f.vias[k] \in {"stored", "promise"}
                   /\ plugin.crawls = 1
             /\ \A k \in DOMAIN f.seen :
                   /\ crawl.pc = "done"
                   /\ f.seen[k] = <<crawl.result>>
                   /\ crawl.result.baseUrl = plugin.docsUrl

\* two fetchDocs calls with a topic overlapped and both returned: both
\* awaited the promise of the one crawl, and the first then found the
\* stored result
C26_Witness ==
    /\ plugin.crawls = 1
    /\ Len(plugin.fetches) = 2
    /\ \A fetch \in 1..2 : plugin.fetches[fetch].pc = "done"
    /\ plugin.fetches[1].vias = <<"promise", "stored">>
    /\ Len(plugin.fetches[2].vias) = 2
    /\ plugin.fetches[2].vias[1] = "promise"
    /\ Len(plugin.fetches[2].seen) = 2
    /\ Len(crawl.result.sections) > 0

\* the dynamic plugins of a list of plugins
DynamicNames(plugins) ==
    [k \in {j \in DOMAIN plugins : plugins[j].dynamic} |-> plugins[k].name]

\* C30: for every interleaving of requests, loadProjectInfo is called at
\* most once unless a call threw, a handler that is past
\* ensureProjectLoaded reads activePlugins only when no loadProjectInfo
\* call is still loading the custom config or discovering, and
\* activePlugins never holds two dynamic plugins of one package.
C30_LoadedOnceAndComplete ==
    /\ Cardinality({l \in DOMAIN server.loads : server.loads[l].pc # "threw"}) <= 1
    /\ \A r \in DOMAIN server.requests :
          server.requests[r].pc = "handled" => server.requests[r].pending = {}
    /\ \A j, k \in DOMAIN DynamicNames(server.activePlugins) :
          DynamicNames(server.activePlugins)[j] = DynamicNames(server.activePlugins)[k]
          => j = k

====
